---- MODULE Spec2Model ----
(***************************************************************************)
(* The asyncpg DBAPI adaptation layer of                                   *)
(* lib/sqlalchemy/dialects/postgresql/asyncpg.py: one adapted connection   *)
(* (AsyncAdapt_asyncpg_connection), the cursors that execute on it, the    *)
(* dialect-wide schema invalidation timestamp and the exception            *)
(* translator.                                                             *)
(*                                                                         *)
(* Tasks are coroutines / greenlets sharing the connection.  A task gives  *)
(* up control only at an await on the native driver, so every action below *)
(* runs the synchronous code from one suspension point to the next.        *)
(***************************************************************************)
EXTENDS Integers, Sequences, FiniteSets, TLC

VARIABLES
    _transaction,        \* connection._transaction: None or the native handle
    _started,            \* connection._started
    isolation_level,     \* connection.isolation_level
    _isolation_setting,  \* connection._isolation_setting (sticky level)
    _execute_mutex,      \* asyncio.Lock: 0 when free, else the holding task
    _prepared_statement_cache, \* the LRUCache of the connection, or NoCache
    conn_asof,           \* connection._invalidate_schema_cache_asof
    dialect_asof,        \* dialect._invalidate_schema_cache_asof
    cursor_asof,         \* cursor._invalidate_schema_cache_asof, per task
    is_closed,           \* native connection.is_closed()
    now,                 \* the reading time.time() returns
    pc,                  \* per task: the await it is suspended at
    call,                \* per task: the call in progress
    n_calls,             \* execute/executemany calls issued so far
    driver_calls,        \* driver calls of execute/executemany, in order
    seen,                \* per statement text: the handle and the caller
                         \* timestamp of the last _prepare that returned, and
                         \* the first invalidation after it (0: none yet)
    last                 \* what the step that led to this state did

vars == <<_transaction, _started, isolation_level, _isolation_setting,
          _execute_mutex, _prepared_statement_cache, conn_asof, dialect_asof,
          cursor_asof, is_closed, now, pc, call, n_calls, driver_calls, seen, last>>

(***************************************************************************)
(* Bounds of the model                                                     *)
(***************************************************************************)
NumTasks == 2
MaxCalls == 4
MaxTime == 3
CacheSize == 2

Tasks == 1..NumTasks
\* statement texts: one more than the cache holds
Statements == 1..(CacheSize + 1)

None == "None"
Transaction == "Transaction"
Levels == {"autocommit", "read_committed", "serializable"}

(***************************************************************************)
(* Exception translation                                                   *)
(***************************************************************************)
\* the generic hierarchy: each class with its ancestors, most specific first
GenericMRO ==
    [Error |-> <<"Error">>,
     InterfaceError |-> <<"InterfaceError", "Error">>,
     DatabaseError |-> <<"DatabaseError", "Error">>,
     InternalError |-> <<"InternalError", "DatabaseError", "Error">>,
     OperationalError |-> <<"OperationalError", "DatabaseError", "Error">>,
     ProgrammingError |-> <<"ProgrammingError", "DatabaseError", "Error">>,
     IntegrityError |-> <<"IntegrityError", "DatabaseError", "Error">>,
     DataError |-> <<"DataError", "DatabaseError", "Error">>,
     NotSupportedError |-> <<"NotSupportedError", "DatabaseError", "Error">>,
     InternalServerError |->
        <<"InternalServerError", "InternalError", "DatabaseError", "Error">>,
     InvalidCachedStatementError |->
        <<"InvalidCachedStatementError", "NotSupportedError",
          "DatabaseError", "Error">>]

GenericClasses == DOMAIN GenericMRO

\* type(error).__mro__ of the errors the driver and the runtime raise
NativeMRO ==
    [asyncpg_UniqueViolationError |->
        <<"asyncpg_UniqueViolationError",
          "asyncpg_IntegrityConstraintViolationError",
          "asyncpg_PostgresError", "Exception">>,
     asyncpg_IntegrityConstraintViolationError |->
        <<"asyncpg_IntegrityConstraintViolationError",
          "asyncpg_PostgresError", "Exception">>,
     asyncpg_PostgresSyntaxError |->
        <<"asyncpg_PostgresSyntaxError", "asyncpg_SyntaxOrAccessError",
          "asyncpg_PostgresError", "Exception">>,
     asyncpg_InvalidCachedStatementError |->
        <<"asyncpg_InvalidCachedStatementError",
          "asyncpg_FeatureNotSupportedError",
          "asyncpg_PostgresError", "Exception">>,
     asyncpg_InternalServerError |->
        <<"asyncpg_InternalServerError", "asyncpg_PostgresError",
          "Exception">>,
     asyncpg_DeadlockDetectedError |->
        <<"asyncpg_DeadlockDetectedError",
          "asyncpg_TransactionRollbackError",
          "asyncpg_PostgresError", "Exception">>,
     asyncpg_PostgresError |-> <<"asyncpg_PostgresError", "Exception">>,
     asyncpg_InterfaceError |-> <<"asyncpg_InterfaceError", "Exception">>,
     ConnectionResetError |->
        <<"ConnectionResetError", "ConnectionError", "OSError", "Exception">>,
     TypeError |-> <<"TypeError", "Exception">>]

NativeClasses == DOMAIN NativeMRO

\* dbapi._asyncpg_error_translate
exception_mapping ==
    [asyncpg_IntegrityConstraintViolationError |-> "IntegrityError",
     asyncpg_PostgresError |-> "Error",
     asyncpg_SyntaxOrAccessError |-> "ProgrammingError",
     asyncpg_InterfaceError |-> "InterfaceError",
     asyncpg_InvalidCachedStatementError |-> "InvalidCachedStatementError",
     asyncpg_InternalServerError |-> "InternalServerError"]

\* an error object that carries no sqlstate attribute
Absent == "absent"
SqlStates == {Absent, "23505", "XX000"}

\* isinstance(error, AsyncAdapt_asyncpg_dbapi.Error)
IsGenericError(error) ==
    /\ error.cls \in GenericClasses
    /\ \E i \in 1..Len(GenericMRO[error.cls]) : GenericMRO[error.cls][i] = "Error"

\* getattr(error, "sqlstate", None)
GetSqlstate(error) == IF error.sqlstate = Absent THEN None ELSE error.sqlstate

\* the for loop over type(error).__mro__: the index of the first class that is a
\* key of the mapping, 0 when the loop runs to its end
RECURSIVE FirstMappedFrom(_, _)
FirstMappedFrom(mro, i) ==
    IF i > Len(mro) THEN 0
    ELSE IF mro[i] \in DOMAIN exception_mapping THEN i
    ELSE FirstMappedFrom(mro, i + 1)

RECURSIVE LastMappedFrom(_, _)
LastMappedFrom(mro, i) ==
    IF i < 1 THEN 0
    ELSE IF mro[i] \in DOMAIN exception_mapping THEN i
    ELSE LastMappedFrom(mro, i - 1)

\* a walk that takes the least specific mapped class
MappedIndexLeastSpecific(mro) == LastMappedFrom(mro, Len(mro))

MappedIndex(mro) == FirstMappedFrom(mro, 1)

\* the error _handle_exception raises for `error`
TranslateError(error) ==
    IF IsGenericError(error) THEN error
    ELSE LET mro == NativeMRO[error.cls]
             i == MappedIndex(mro)
         IN IF i = 0 THEN error
            ELSE [cls |-> exception_mapping[mro[i]],
                  sqlstate |-> GetSqlstate(error),
                  pgcode |-> GetSqlstate(error),
                  cause |-> error.cls]

NeverCleared(closed, transaction, started) ==
    [transaction |-> transaction, started |-> started]

\* the transaction state _handle_exception leaves
ClearedIfClosed(closed, transaction, started) ==
    IF closed THEN [transaction |-> None, started |-> FALSE]
    ELSE [transaction |-> transaction, started |-> started]

(***************************************************************************)
(* util.LRUCache, as the prepared statement cache uses it: `order` lists   *)
(* the keys from least to most recently used                               *)
(***************************************************************************)
EmptyEntries == [k \in {} |-> None]

LRUCache(capacity) ==
    [capacity |-> capacity, order |-> <<>>, entry |-> EmptyEntries]

\* self._prepared_statement_cache = None, held as a cache without capacity
NoCache == LRUCache(0)

\* cache is None
IsNone(cache) == cache.capacity = 0

\* operation in cache
LRUContains(cache, key) == key \in DOMAIN cache.entry

Without(order, key) == SelectSeq(order, LAMBDA k : k # key)

\* cache[key]: reading an entry makes it the most recently used
LRUGet(cache, key) ==
    [cache EXCEPT !.order = Append(Without(cache.order, key), key)]

\* cache[key] = value: the least recently used entry goes when the cache is full
LRUSet(cache, key, value) ==
    LET order == Append(Without(cache.order, key), key)
        keep == IF Len(order) > cache.capacity THEN Tail(order) ELSE order
        keys == {keep[i] : i \in 1..Len(keep)}
    IN [cache EXCEPT
          !.order = keep,
          !.entry = [k \in keys |-> IF k = key THEN value ELSE cache.entry[k]]]

(***************************************************************************)
(* AsyncAdapt_asyncpg_connection._prepare                                  *)
(***************************************************************************)
\* prepared_stmt.get_attributes()
GetAttributes(stmt) == [of |-> stmt]

NeedsReloadOnChange(invalidate_timestamp, asof) == invalidate_timestamp # asof

NeedsReloadAlways(invalidate_timestamp, asof) == TRUE

\* _check_type_cache_invalidation: the test that decides the reload
NeedsReload(invalidate_timestamp, asof) == invalidate_timestamp > asof

CacheUsableIgnoringTimestamp(cached_timestamp, invalidate_timestamp) == TRUE

CacheUsableReversed(cached_timestamp, invalidate_timestamp) ==
    cached_timestamp < invalidate_timestamp

\* the test a cached entry has to pass to be returned
CacheUsable(cached_timestamp, invalidate_timestamp) ==
    cached_timestamp > invalidate_timestamp

ReadWithoutTouch(cache, key) == cache

\* prepared_stmt, attributes, cached_timestamp = cache[operation]
ReadEntry(cache, key) == LRUGet(cache, key)

\* _prepare from the cache lookup to the return of a cached entry (hit) or to
\* the call of the driver's prepare
Lookup(cache, operation, invalidate_timestamp) ==
    IF IsNone(cache) THEN [hit |-> FALSE, cache |-> cache]
    ELSE IF LRUContains(cache, operation)
    THEN LET entry == cache.entry[operation]
             read == ReadEntry(cache, operation)
         IN IF CacheUsable(entry.ts, invalidate_timestamp)
            THEN [hit |-> TRUE, cache |-> read, stmt |-> entry.stmt,
                  attributes |-> entry.attributes]
            ELSE [hit |-> FALSE, cache |-> read]
    ELSE [hit |-> FALSE, cache |-> cache]

\* _prepare after the driver's prepare returned `stmt`: the cache it leaves
Store(cache, operation, stmt, timestamp) ==
    IF IsNone(cache) THEN cache
    ELSE LRUSet(cache, operation,
                [stmt |-> stmt, attributes |-> GetAttributes(stmt),
                 ts |-> timestamp])

(***************************************************************************)
(* Helpers of the actions                                                  *)
(***************************************************************************)
NoCall == [op |-> None]

\* no _prepare for the statement text has returned yet (handles and call ids
\* count from 1)
NotSeen == [stmt |-> 0, t |-> 0, bump |-> 0, touched |-> 0]

\* the errors the driver raises in the connection model: one the mapping
\* translates and one it does not
DriverErrors ==
    {[cls |-> "asyncpg_InterfaceError", sqlstate |-> Absent],
     [cls |-> "ConnectionResetError", sqlstate |-> Absent]}

\* a connection that is closed stays closed; a failing driver call may have
\* found or left it closed
ClosedAfterFailure == {c \in BOOLEAN : is_closed => c}

Ev(p, ev) == [task |-> p, ev |-> ev]

\* _prepare returned to the cursor
PreparedEvent(p, sql, t, hit, stmt, attributes, asof) ==
    [task |-> p, ev |-> "prepared", id |-> call[p].id, sql |-> sql, t |-> t,
     hit |-> hit, stmt |-> stmt, attributes |-> attributes, asof |-> asof,
     cache_before |-> _prepared_statement_cache, seen_before |-> seen[sql],
     touched_before |-> [s \in Statements |-> seen[s].touched]]

\* the call `op` of task p ended, or its rollback() did: `native` is the native
\* call that failed or, for transaction control, the one that was made;
\* `translated` tells whether the error raised went through _handle_exception
EndEvent(p, op, ev, native, translated, error) ==
    [task |-> p, ev |-> ev, op |-> op, native |-> native,
     translated |-> translated, error |-> error]

MutexFreeAlways(mutex) == TRUE

\* asyncio.Lock.locked() is false
MutexFree(mutex) == mutex = 0

\* the statement texts told apart: without a cache the text plays no part in
\* what the connection does, and one text stands for all
Texts(cache) == IF IsNone(cache) THEN {1} ELSE Statements

\* `seen` once _prepare of call `id` returned `stmt` for `sql` to a caller with
\* timestamp t (kept for connections that cache)
Remember(cache, sql, stmt, t, id) ==
    IF IsNone(cache) THEN seen
    ELSE [seen EXCEPT
            ![sql] = [stmt |-> stmt, t |-> t, bump |-> 0, touched |-> id]]

\* `seen` once call `id` read the entry of `sql` and found it stale
Touched(cache, sql, id) ==
    IF LRUContains(cache, sql) THEN [seen EXCEPT ![sql].touched = id] ELSE seen

\* the ids of the execute/executemany calls in progress, that of p left out
InProgress(p) ==
    {call[q].id : q \in {q \in Tasks : q # p /\ pc[q] \notin {"idle", "commit", "rollback", "close"}}}

\* driver_calls without its leading calls that are over: they cannot be
\* joined by a later driver call any more
RECURSIVE Pruned(_, _)
Pruned(calls, ids) ==
    IF calls = <<>> \/ Head(calls).id \in ids THEN calls
    ELSE Pruned(Tail(calls), ids)

\* a coroutine awaits a driver call and is suspended in it
Issue(p, driver_call) ==
    /\ pc' = [pc EXCEPT ![p] = driver_call]
    /\ driver_calls' =
          Append(driver_calls, [id |-> call[p].id, call |-> driver_call])

\* the call of task p is over
Finish(p, event) ==
    /\ pc' = [pc EXCEPT ![p] = "idle"]
    /\ call' = [call EXCEPT ![p] = NoCall]
    /\ last' = event

\* _prepare from its cache lookup on, `asof` being the connection's timestamp:
\* a hit returns and the cursor awaits fetch, anything else awaits prepare
DoLookup(p, asof) ==
    LET sql == call[p].sql
        t == cursor_asof[p]
        r == Lookup(_prepared_statement_cache, sql, t)
    IN /\ _prepared_statement_cache' = r.cache
       /\ IF r.hit
          THEN /\ Issue(p, "fetch")
               /\ seen' = Remember(_prepared_statement_cache, sql, r.stmt, t,
                                    call[p].id)
               /\ last' = PreparedEvent(p, sql, t, TRUE, r.stmt, r.attributes, asof)
          ELSE /\ Issue(p, "prepare")
               /\ seen' = Touched(_prepared_statement_cache, sql, call[p].id)
               /\ last' = Ev(p, "step")

\* _prepare from its first line
DoPrepare(p) ==
    IF NeedsReload(cursor_asof[p], conn_asof)
    THEN /\ Issue(p, "reload_schema_state")
         /\ UNCHANGED <<_prepared_statement_cache, seen>>
         /\ last' = Ev(p, "step")
    ELSE DoLookup(p, conn_asof)

\* _start_transaction past its autocommit test: the handle is stored and its
\* start() awaited
DoStart(p) ==
    /\ _transaction' = Transaction
    /\ Issue(p, "start")
    /\ UNCHANGED <<_prepared_statement_cache, seen>>
    /\ last' = Ev(p, "step")

NeedsStartWhileOpen(started, level) == level # "autocommit"

\* `if not self._started` followed by the autocommit test of _start_transaction
NeedsStart(started, level) == ~started /\ level # "autocommit"

\* _executemany once the type cache check is done
DoExecutemany(p, started) ==
    IF NeedsStart(started, isolation_level)
    THEN DoStart(p)
    ELSE /\ Issue(p, "executemany")
         /\ UNCHANGED <<_transaction, _prepared_statement_cache, seen>>
         /\ last' = Ev(p, "step")

\* a driver call failed inside a try block: _handle_exception runs, the error
\* it raises leaves the coroutine and `async with` releases the mutex
RaiseTranslated(p, error, closed) ==
    LET c == ClearedIfClosed(closed, _transaction, _started)
    IN /\ is_closed' = closed
       /\ _transaction' = c.transaction
       /\ _started' = c.started
       /\ _execute_mutex' = 0
       /\ Finish(p, EndEvent(p, call[p].op, "raised", pc[p], TRUE,
                              TranslateError(error).cls))
       /\ driver_calls' = Pruned(driver_calls, InProgress(p))
       /\ UNCHANGED <<isolation_level, _isolation_setting,
                      _prepared_statement_cache, conn_asof, dialect_asof,
                      cursor_asof, now, n_calls, seen>>

RaiseNativeHoldingMutex(p, error, closed) ==
    /\ is_closed' = closed
    /\ Finish(p, EndEvent(p, call[p].op, "raised", pc[p], FALSE, error.cls))
    /\ driver_calls' = Pruned(driver_calls, InProgress(p))
    /\ UNCHANGED <<_transaction, _started, isolation_level, _isolation_setting,
                   _execute_mutex, _prepared_statement_cache, conn_asof,
                   dialect_asof, cursor_asof, now, n_calls, seen>>

\* a driver call failed outside any try block: the native error leaves the
\* coroutine as it is and `async with` releases the mutex
RaiseNative(p, error, closed) ==
    /\ is_closed' = closed
    /\ _execute_mutex' = 0
    /\ Finish(p, EndEvent(p, call[p].op, "raised", pc[p], FALSE, error.cls))
    /\ driver_calls' = Pruned(driver_calls, InProgress(p))
    /\ UNCHANGED <<_transaction, _started, isolation_level, _isolation_setting,
                   _prepared_statement_cache, conn_asof, dialect_asof,
                   cursor_asof, now, n_calls, seen>>

(***************************************************************************)
(* The clock, the dialect and the cursors                                  *)
(***************************************************************************)
\* the clock advances; two readings of time.time() may be equal
Tick ==
    /\ now < MaxTime
    /\ now' = now + 1
    /\ last' = Ev(0, "tick")
    /\ UNCHANGED <<_transaction, _started, isolation_level, _isolation_setting,
                   _execute_mutex, _prepared_statement_cache, conn_asof,
                   dialect_asof, cursor_asof, is_closed, pc, call, n_calls,
                   driver_calls, seen>>

\* PGDialect_asyncpg._invalidate_schema_cache
InvalidateSchemaCache(time) == time

\* PGExecutionContext_asyncpg.pre_exec for the cursor of task p
PreExec(p) ==
    /\ pc[p] = "idle"
    /\ \E isddl \in BOOLEAN :
          LET d == IF isddl THEN InvalidateSchemaCache(now) ELSE dialect_asof
          IN /\ dialect_asof' = d
             /\ cursor_asof' = [cursor_asof EXCEPT ![p] = d]
             /\ seen' = IF isddl
                        THEN [s \in Statements |->
                                IF seen[s] = NotSeen \/ seen[s].bump # 0
                                THEN seen[s]
                                ELSE [seen[s] EXCEPT !.bump = d]]
                        ELSE seen
             /\ last' = [task |-> p, ev |-> "pre_exec", isddl |-> isddl]
    /\ UNCHANGED <<_transaction, _started, isolation_level, _isolation_setting,
                   _execute_mutex, _prepared_statement_cache, conn_asof,
                   is_closed, now, pc, call, n_calls, driver_calls>>

\* connection.cursor(): task p takes a new cursor
NewCursor(p) ==
    /\ pc[p] = "idle"
    /\ cursor_asof[p] # 0
    /\ cursor_asof' = [cursor_asof EXCEPT ![p] = 0]
    /\ last' = Ev(p, "cursor")
    /\ UNCHANGED <<_transaction, _started, isolation_level, _isolation_setting,
                   _execute_mutex, _prepared_statement_cache, conn_asof,
                   dialect_asof, is_closed, now, pc, call, n_calls,
                   driver_calls, seen>>

(***************************************************************************)
(* AsyncAdapt_asyncpg_cursor.execute and executemany                       *)
(***************************************************************************)
\* execute() / executemany(): the coroutine is handed to await_ and reaches
\* `async with adapt_connection._execute_mutex`
ExecuteCall(p) ==
    /\ pc[p] = "idle"
    /\ n_calls < MaxCalls
    /\ \E op \in {"execute", "executemany"},
          sql \in Texts(_prepared_statement_cache) :
          call' = [call EXCEPT
                     ![p] = [op |-> op, id |-> n_calls + 1, sql |-> sql]]
    /\ n_calls' = n_calls + 1
    /\ pc' = [pc EXCEPT ![p] = "wait_mutex"]
    /\ last' = Ev(p, "call")
    /\ UNCHANGED <<_transaction, _started, isolation_level, _isolation_setting,
                   _execute_mutex, _prepared_statement_cache, conn_asof,
                   dialect_asof, cursor_asof, is_closed, now, driver_calls,
                   seen>>

\* the mutex is acquired and the coroutine runs to its first await
Acquire(p) ==
    /\ pc[p] = "wait_mutex"
    /\ MutexFree(_execute_mutex)
    /\ _execute_mutex' = p
    /\ IF call[p].op = "execute"
       THEN IF NeedsStart(_started, isolation_level)
            THEN DoStart(p)
            ELSE UNCHANGED _transaction /\ DoPrepare(p)
       ELSE IF NeedsReload(cursor_asof[p], conn_asof)
            THEN /\ Issue(p, "reload_schema_state")
                 /\ UNCHANGED <<_transaction, _prepared_statement_cache, seen>>
                 /\ last' = Ev(p, "step")
            ELSE DoExecutemany(p, _started)
    /\ UNCHANGED <<_started, isolation_level, _isolation_setting, conn_asof,
                   dialect_asof, cursor_asof, is_closed, now, call, n_calls>>

\* `await self._transaction.start()` of _start_transaction is over
StartReturn(p) ==
    /\ pc[p] = "start"
    /\ \/ /\ ~is_closed
          /\ _started' = TRUE
          /\ IF call[p].op = "execute"
             THEN UNCHANGED _transaction /\ DoPrepare(p)
             ELSE /\ Issue(p, "executemany")
                  /\ UNCHANGED <<_transaction, _prepared_statement_cache, seen>>
                  /\ last' = Ev(p, "step")
          /\ UNCHANGED <<isolation_level, _isolation_setting, _execute_mutex,
                         conn_asof, dialect_asof, cursor_asof, is_closed, now,
                         call, n_calls>>
       \/ \E error \in DriverErrors, closed \in ClosedAfterFailure :
             RaiseTranslated(p, error, closed)

\* `await self._connection.reload_schema_state()` is over
ReloadReturn(p) ==
    /\ pc[p] = "reload_schema_state"
    /\ \/ /\ ~is_closed
          /\ conn_asof' = cursor_asof[p]
          /\ IF call[p].op = "execute"
             THEN UNCHANGED _transaction /\ DoLookup(p, cursor_asof[p])
             ELSE DoExecutemany(p, _started)
          /\ UNCHANGED <<_started, isolation_level, _isolation_setting,
                         _execute_mutex, dialect_asof, cursor_asof, is_closed,
                         now, call, n_calls>>
       \/ \E error \in DriverErrors, closed \in ClosedAfterFailure :
             IF call[p].op = "execute"
             THEN RaiseTranslated(p, error, closed)
             ELSE RaiseNative(p, error, closed)

\* `await self._connection.prepare(operation)` is over: the new statement is
\* stored with the time read now and the cursor awaits fetch
PrepareReturn(p) ==
    /\ pc[p] = "prepare"
    /\ \/ LET sql == call[p].sql
              t == cursor_asof[p]
              stmt == call[p].id
          IN /\ ~is_closed
             /\ _prepared_statement_cache' =
                   Store(_prepared_statement_cache, sql, stmt, now)
             /\ Issue(p, "fetch")
             /\ seen' = Remember(_prepared_statement_cache, sql, stmt, t,
                                  call[p].id)
             /\ last' = PreparedEvent(p, sql, t, FALSE, stmt,
                                      GetAttributes(stmt), conn_asof)
             /\ UNCHANGED <<_transaction, _started, isolation_level,
                            _isolation_setting, _execute_mutex, conn_asof,
                            dialect_asof, cursor_asof, is_closed, now, call,
                            n_calls>>
       \/ \E error \in DriverErrors, closed \in ClosedAfterFailure :
             RaiseTranslated(p, error, closed)

\* `await prepared_stmt.fetch(*parameters)` or
\* `await self._connection.executemany(...)` is over
StatementReturn(p) ==
    /\ pc[p] \in {"fetch", "executemany"}
    /\ \/ /\ ~is_closed
          /\ _execute_mutex' = 0
          /\ Finish(p, EndEvent(p, call[p].op, "returned", None, FALSE, None))
          /\ driver_calls' = Pruned(driver_calls, InProgress(p))
          /\ UNCHANGED <<_transaction, _started, isolation_level,
                         _isolation_setting, _prepared_statement_cache,
                         conn_asof, dialect_asof, cursor_asof, is_closed, now,
                         n_calls, seen>>
       \/ \E error \in DriverErrors, closed \in ClosedAfterFailure :
             RaiseTranslated(p, error, closed)

(***************************************************************************)
(* AsyncAdapt_asyncpg_connection: commit, rollback, set_isolation_level,   *)
(* autocommit, close                                                       *)
(***************************************************************************)
FinallySkipped(transaction, started) ==
    [transaction |-> transaction, started |-> started]

\* the finally block of commit() and rollback()
Finally(transaction, started) == [transaction |-> None, started |-> FALSE]

\* the native commit()/rollback() of task p raised: _handle_exception, then the
\* finally block, then the translated error leaves the call
TxControlRaise(p, error, closed) ==
    LET c == ClearedIfClosed(closed, _transaction, _started)
        f == Finally(c.transaction, c.started)
    IN /\ is_closed' = closed
       /\ _transaction' = f.transaction
       /\ _started' = f.started
       /\ Finish(p, EndEvent(p, call[p].op, "raised", pc[p], TRUE,
                             TranslateError(error).cls))
       /\ UNCHANGED <<isolation_level, _isolation_setting, _execute_mutex,
                      _prepared_statement_cache, conn_asof, dialect_asof,
                      cursor_asof, now, n_calls, driver_calls, seen>>

\* commit(): nothing to do without a started transaction, else the native
\* commit is awaited
Commit(p) ==
    /\ pc[p] = "idle"
    /\ IF _started
       THEN /\ pc' = [pc EXCEPT ![p] = "commit"]
            /\ call' = [call EXCEPT ![p] = [op |-> "commit"]]
            /\ last' = Ev(p, "step")
       ELSE Finish(p, EndEvent(p, "commit", "returned", None, FALSE, None))
    /\ UNCHANGED <<_transaction, _started, isolation_level, _isolation_setting,
                   _execute_mutex, _prepared_statement_cache, conn_asof,
                   dialect_asof, cursor_asof, is_closed, now, n_calls,
                   driver_calls, seen>>

\* `self.await_(self._transaction.commit())` is over
CommitReturn(p) ==
    /\ pc[p] = "commit"
    /\ \/ LET f == Finally(_transaction, _started)
          IN /\ ~is_closed
             /\ _transaction' = f.transaction
             /\ _started' = f.started
             /\ Finish(p, EndEvent(p, "commit", "returned", "commit", FALSE, None))
             /\ UNCHANGED <<isolation_level, _isolation_setting,
                            _execute_mutex, _prepared_statement_cache,
                            conn_asof, dialect_asof, cursor_asof, is_closed,
                            now, n_calls, driver_calls, seen>>
       \/ \E error \in DriverErrors, closed \in ClosedAfterFailure :
             TxControlRaise(p, error, closed)

\* rollback()
Rollback(p) ==
    /\ pc[p] = "idle"
    /\ IF _started
       THEN /\ pc' = [pc EXCEPT ![p] = "rollback"]
            /\ call' = [call EXCEPT ![p] = [op |-> "rollback"]]
            /\ last' = Ev(p, "step")
       ELSE Finish(p, EndEvent(p, "rollback", "returned", None, FALSE, None))
    /\ UNCHANGED <<_transaction, _started, isolation_level, _isolation_setting,
                   _execute_mutex, _prepared_statement_cache, conn_asof,
                   dialect_asof, cursor_asof, is_closed, now, n_calls,
                   driver_calls, seen>>

\* set_isolation_level(level): an open transaction is rolled back first
SetIsolationLevel(p) ==
    /\ pc[p] = "idle"
    /\ \E level \in Levels :
          IF _started
          THEN /\ pc' = [pc EXCEPT ![p] = "rollback"]
               /\ call' = [call EXCEPT
                             ![p] = [op |-> "set_isolation_level",
                                     level |-> level]]
               /\ last' = Ev(p, "step")
               /\ UNCHANGED <<isolation_level, _isolation_setting>>
          ELSE /\ isolation_level' = level
               /\ _isolation_setting' = level
               /\ Finish(p, EndEvent(p, "set_isolation_level", "returned",
                                     None, FALSE, None))
    /\ UNCHANGED <<_transaction, _started, _execute_mutex,
                   _prepared_statement_cache, conn_asof, dialect_asof,
                   cursor_asof, is_closed, now, n_calls, driver_calls, seen>>

\* close(): rollback() comes first, then the native close is awaited
Close(p) ==
    /\ pc[p] = "idle"
    /\ pc' = [pc EXCEPT ![p] = IF _started THEN "rollback" ELSE "close"]
    /\ call' = [call EXCEPT ![p] = [op |-> "close"]]
    /\ last' = Ev(p, "step")
    /\ UNCHANGED <<_transaction, _started, isolation_level, _isolation_setting,
                   _execute_mutex, _prepared_statement_cache, conn_asof,
                   dialect_asof, cursor_asof, is_closed, now, n_calls,
                   driver_calls, seen>>

\* `self.await_(self._transaction.rollback())` is over, in rollback() itself
\* or in the rollback() that set_isolation_level and close call
RollbackReturn(p) ==
    /\ pc[p] = "rollback"
    /\ \/ LET f == Finally(_transaction, _started)
              op == call[p].op
          IN /\ ~is_closed
             /\ _transaction' = f.transaction
             /\ _started' = f.started
             /\ IF op = "close"
                THEN /\ pc' = [pc EXCEPT ![p] = "close"]
                     /\ last' = EndEvent(p, op, "rolled_back", "rollback", FALSE,
                                          None)
                     /\ UNCHANGED call
                ELSE Finish(p, EndEvent(p, op, "returned", "rollback", FALSE, None))
             /\ IF op = "set_isolation_level"
                THEN /\ isolation_level' = call[p].level
                     /\ _isolation_setting' = call[p].level
                ELSE UNCHANGED <<isolation_level, _isolation_setting>>
             /\ UNCHANGED <<_execute_mutex, _prepared_statement_cache,
                            conn_asof, dialect_asof, cursor_asof, is_closed,
                            now, n_calls, driver_calls, seen>>
       \/ \E error \in DriverErrors, closed \in ClosedAfterFailure :
             TxControlRaise(p, error, closed)

\* `self.await_(self._connection.close())` is over
CloseReturn(p) ==
    /\ pc[p] = "close"
    /\ \/ /\ is_closed' = TRUE
          /\ Finish(p, EndEvent(p, "close", "returned", "close", FALSE, None))
       \/ \E error \in DriverErrors, closed \in ClosedAfterFailure :
             /\ is_closed' = closed
             /\ Finish(p, EndEvent(p, "close", "raised", "close", FALSE,
                                   error.cls))
    /\ UNCHANGED <<_transaction, _started, isolation_level, _isolation_setting,
                   _execute_mutex, _prepared_statement_cache, conn_asof,
                   dialect_asof, cursor_asof, now, n_calls, driver_calls, seen>>

AutocommitLevelDefault(value, setting) ==
    IF value THEN "autocommit" ELSE "read_committed"

\* the level the autocommit setter makes current
AutocommitLevel(value, setting) == IF value THEN "autocommit" ELSE setting

\* the autocommit setter
SetAutocommit(p) ==
    /\ pc[p] = "idle"
    /\ \E value \in BOOLEAN :
          /\ isolation_level' = AutocommitLevel(value, _isolation_setting)
          /\ last' = [task |-> p, ev |-> "autocommit", value |-> value,
                      was |-> isolation_level]
    /\ UNCHANGED <<_transaction, _started, _isolation_setting, _execute_mutex,
                   _prepared_statement_cache, conn_asof, dialect_asof,
                   cursor_asof, is_closed, now, pc, call, n_calls,
                   driver_calls, seen>>

(***************************************************************************)
(* Specifications                                                          *)
(***************************************************************************)
ConstructedCaching(prepared_statement_cache_size, time) ==
    /\ _transaction = None
    /\ _started = FALSE
    /\ isolation_level = "read_committed"
    /\ _isolation_setting = "read_committed"
    /\ _execute_mutex = 0
    /\ _prepared_statement_cache = LRUCache(CacheSize)
    /\ conn_asof = time
    /\ is_closed = FALSE

\* AsyncAdapt_asyncpg_connection.__init__ at clock reading `time`, with the
\* given cache size
Constructed(prepared_statement_cache_size, time) ==
    /\ _transaction = None
    /\ _started = FALSE
    /\ isolation_level = "read_committed"
    /\ _isolation_setting = "read_committed"
    /\ _execute_mutex = 0
    /\ _prepared_statement_cache =
          IF prepared_statement_cache_size # 0
          THEN LRUCache(prepared_statement_cache_size) ELSE NoCache
    /\ conn_asof = time
    /\ is_closed = FALSE

\* no task has called anything yet
NothingCalled ==
    /\ pc = [p \in Tasks |-> "idle"]
    /\ call = [p \in Tasks |-> NoCall]
    /\ n_calls = 0
    /\ driver_calls = <<>>
    /\ seen = [s \in Statements |-> NotSeen]
    /\ last = Ev(0, "init")

\* A connection without statement cache, shared by all the tasks.  It was
\* constructed at clock reading 1; the clock now reads 2, the dialect was
\* invalidated at that reading or never, and the cursor of each task is new or
\* went through pre_exec.
Init ==
    /\ Constructed(0, 1)
    /\ now = 2
    /\ dialect_asof \in {0, now}
    /\ cursor_asof \in [Tasks -> {0, dialect_asof}]
    /\ NothingCalled

Next ==
    \E p \in Tasks :
       \/ ExecuteCall(p)
       \/ Acquire(p)
       \/ StartReturn(p)
       \/ ReloadReturn(p)
       \/ PrepareReturn(p)
       \/ StatementReturn(p)
       \/ Commit(p)
       \/ CommitReturn(p)
       \/ Rollback(p)
       \/ RollbackReturn(p)
       \/ SetIsolationLevel(p)
       \/ SetAutocommit(p)
       \/ Close(p)
       \/ CloseReturn(p)

Spec == Init /\ [][Next]_vars

\* the task whose calls the cache specification follows
CacheTasks == {1}

\* A connection that caches CacheSize statements.  It was constructed at clock
\* reading 1; the clock now reads 2 and the dialect was invalidated at that
\* reading or never.
CacheInit ==
    /\ Constructed(CacheSize, 1)
    /\ now = 2
    /\ dialect_asof \in {0, now}
    /\ cursor_asof = [p \in Tasks |-> 0]
    /\ NothingCalled

CacheNext ==
    \/ Tick
    \/ \E p \in CacheTasks :
          \/ PreExec(p)
          \/ NewCursor(p)
          \/ ExecuteCall(p)
          \/ Acquire(p)
          \/ StartReturn(p)
          \/ ReloadReturn(p)
          \/ PrepareReturn(p)
          \/ StatementReturn(p)

CacheSpec == CacheInit /\ [][CacheNext]_vars

\* the errors _handle_exception is given: native ones and generic ones, with
\* and without a sqlstate
Errors == [cls : NativeClasses \cup GenericClasses, sqlstate : SqlStates]

\* _handle_exception(error), called on its own
HandleException(p) ==
    /\ pc[p] = "_handle_exception"
    /\ LET error == call[p].error
           c == ClearedIfClosed(is_closed, _transaction, _started)
       IN /\ _transaction' = c.transaction
          /\ _started' = c.started
          /\ Finish(p, [task |-> p, ev |-> "raised", op |-> "_handle_exception",
                        input |-> error, error |-> TranslateError(error)])
    /\ UNCHANGED <<isolation_level, _isolation_setting, _execute_mutex,
                   _prepared_statement_cache, conn_asof, dialect_asof,
                   cursor_asof, is_closed, now, n_calls, driver_calls, seen>>

\* Any error reaches _handle_exception of a connection in any transaction
\* state, the native connection closed or not.
ErrInit ==
    /\ \E state \in {<<None, FALSE>>, <<Transaction, FALSE>>,
                       <<Transaction, TRUE>>} :
          _transaction = state[1] /\ _started = state[2]
    /\ is_closed \in BOOLEAN
    /\ isolation_level = "read_committed"
    /\ _isolation_setting = "read_committed"
    /\ _execute_mutex = 0
    /\ _prepared_statement_cache = NoCache
    /\ now = 1
    /\ conn_asof = now
    /\ dialect_asof = 0
    /\ cursor_asof = [p \in Tasks |-> 0]
    /\ pc = [p \in Tasks |-> IF p = 1 THEN "_handle_exception" ELSE "idle"]
    /\ \E error \in Errors :
          call = [p \in Tasks |->
                    IF p = 1 THEN [op |-> "_handle_exception", error |-> error]
                    ELSE NoCall]
    /\ n_calls = 0
    /\ driver_calls = <<>>
    /\ seen = [s \in Statements |-> NotSeen]
    /\ last = Ev(0, "init")

ErrNext == \E p \in Tasks : HandleException(p)

ErrSpec == ErrInit /\ [][ErrNext]_vars

\* the errors handle_dbapi_exception is given: of any class, an internal
\* server error with the "cache lookup failed" message or without it
CtxErrors ==
    [cls : NativeClasses \cup GenericClasses, cache_lookup_failed : BOOLEAN]

\* the classes of the isinstance test of handle_dbapi_exception
InvalidatingClasses == {"InvalidCachedStatementError", "InternalServerError"}

\* isinstance(e, classes) for the dbapi's classes
IsInstance(e, classes) ==
    /\ e.cls \in GenericClasses
    /\ \E i \in 1..Len(GenericMRO[e.cls]) : GenericMRO[e.cls][i] \in classes

\* PGExecutionContext_asyncpg.handle_dbapi_exception(e) for the context of
\* task p: it returns to the engine, which raises e
HandleDbapiException(p) ==
    /\ pc[p] = "idle"
    /\ \E e \in CtxErrors :
          LET invalidate == IsInstance(e, InvalidatingClasses)
              d == IF invalidate THEN InvalidateSchemaCache(now)
                   ELSE dialect_asof
          IN /\ dialect_asof' = d
             /\ seen' = IF invalidate
                        THEN [s \in Statements |->
                                IF seen[s] = NotSeen \/ seen[s].bump # 0
                                THEN seen[s]
                                ELSE [seen[s] EXCEPT !.bump = d]]
                        ELSE seen
             /\ last' = [task |-> p, ev |-> "handled", error |-> e]
    /\ UNCHANGED <<_transaction, _started, isolation_level, _isolation_setting,
                   _execute_mutex, _prepared_statement_cache, conn_asof,
                   cursor_asof, is_closed, now, pc, call, n_calls,
                   driver_calls>>

\* A connection without statement cache used by one task through execution
\* contexts: the clock, pre_exec, handle_dbapi_exception and new cursors come
\* between the calls.  The connection was constructed at clock reading 1 and
\* the dialect has not been invalidated.
CtxInit ==
    /\ Constructed(0, 1)
    /\ now = 1
    /\ dialect_asof = 0
    /\ cursor_asof = [p \in Tasks |-> 0]
    /\ NothingCalled

CtxNext ==
    \/ Tick
    \/ \E p \in CacheTasks :
          \/ PreExec(p)
          \/ NewCursor(p)
          \/ HandleDbapiException(p)
          \/ ExecuteCall(p)
          \/ Acquire(p)
          \/ StartReturn(p)
          \/ ReloadReturn(p)
          \/ PrepareReturn(p)
          \/ StatementReturn(p)

CtxSpec == CtxInit /\ [][CtxNext]_vars

(***************************************************************************)
(* AsyncAdapt_asyncpg_cursor._prepare_and_execute: the rowcount            *)
(***************************************************************************)
MaxStatusLen == 5

\* what a status message is made of: the command words, the blank and digits
Words == {"UPDATE", "DELETE", "INSERT", "SELECT"}
Digits == {"0", "1", "3"}
Symbols == Words \cup Digits \cup {" "}

DigitValue(d) == CASE d = "0" -> 0 [] d = "1" -> 1 [] d = "3" -> 3

\* prepared_stmt.get_statusmsg(): a text, or None
StatusTexts == UNION {[1..n -> Symbols] : n \in 0..MaxStatusLen}
StatusMessages ==
    {[present |-> FALSE, text |-> <<>>]}
       \cup {[present |-> TRUE, text |-> t] : t \in StatusTexts}

\* \d+ at position i: the number of digits it takes, being greedy
RECURSIVE DigitRun(_, _)
DigitRun(text, i) ==
    IF i <= Len(text) /\ text[i] \in Digits THEN 1 + DigitRun(text, i + 1) ELSE 0

\* int() of the n digits of text from position i
RECURSIVE ToInt(_, _, _)
ToInt(text, i, n) ==
    IF n = 0 THEN 0
    ELSE 10 * ToInt(text, i, n - 1) + DigitValue(text[i + n - 1])

\* (?:UPDATE|DELETE|INSERT \d+) at the start of text: the position after it,
\* 0 without a match
CommandEnd(text) ==
    IF Len(text) >= 1 /\ text[1] \in {"UPDATE", "DELETE"} THEN 2
    ELSE IF /\ Len(text) >= 3
            /\ text[1] = "INSERT"
            /\ text[2] = " "
            /\ DigitRun(text, 3) >= 1
         THEN 3 + DigitRun(text, 3)
         ELSE 0

\* re.match(r"(?:UPDATE|DELETE|INSERT \d+) (\d+)", status): the match starts at
\* the start of the text and need not reach its end
ReMatch(text) ==
    LET j == CommandEnd(text)
    IN IF j # 0 /\ j <= Len(text) /\ text[j] = " " /\ DigitRun(text, j + 1) >= 1
       THEN [matched |-> TRUE, group1 |-> ToInt(text, j + 1, DigitRun(text, j + 1))]
       ELSE [matched |-> FALSE, group1 |-> 0]

\* the rows came back: the cursor sets its rowcount.  re.match raises TypeError
\* for a status that is None, and _handle_exception raises it as it is
SetRowcount(p) ==
    /\ pc[p] = "get_statusmsg"
    /\ LET status == call[p].status
           reg == ReMatch(status.text)
           end(ev, rowcount, error) ==
              [task |-> p, ev |-> ev, op |-> "execute", status |-> status,
               server_side |-> call[p].server_side, rowcount |-> rowcount,
               error |-> error]
       IN IF call[p].server_side
          THEN Finish(p, end("returned", -1, None))
          ELSE IF ~status.present
          THEN Finish(p, end("raised", -1,
                             TranslateError([cls |-> "TypeError",
                                             sqlstate |-> Absent]).cls))
          ELSE Finish(p, end("returned",
                             IF reg.matched THEN reg.group1 ELSE -1, None))
    /\ UNCHANGED <<_transaction, _started, isolation_level, _isolation_setting,
                   _execute_mutex, _prepared_statement_cache, conn_asof,
                   dialect_asof, cursor_asof, is_closed, now, n_calls,
                   driver_calls, seen>>

\* An execute of a normal or a server side cursor has its rows, or its
\* streaming handle, and the statement reports any status message.
RowcountInit ==
    /\ Constructed(0, 1)
    /\ now = 1
    /\ dialect_asof = 0
    /\ cursor_asof = [p \in Tasks |-> 0]
    /\ pc = [p \in Tasks |-> IF p = 1 THEN "get_statusmsg" ELSE "idle"]
    /\ \E status \in StatusMessages, server_side \in BOOLEAN :
          call = [p \in Tasks |->
                    IF p = 1
                    THEN [op |-> "execute", status |-> status,
                          server_side |-> server_side]
                    ELSE NoCall]
    /\ n_calls = 0
    /\ driver_calls = <<>>
    /\ seen = [s \in Statements |-> NotSeen]
    /\ last = Ev(0, "init")

RowcountNext == \E p \in Tasks : SetRowcount(p)

RowcountSpec == RowcountInit /\ [][RowcountNext]_vars

(***************************************************************************)
(* AsyncAdapt_asyncpg_cursor._parameter_placeholders                       *)
(***************************************************************************)
MaxParams == 3

\* some of the dbapi type objects that are keys of _pg_types, with their names
_pg_types ==
    [STRING |-> "varchar", INTEGER |-> "integer", JSON |-> "json"]

\* what setinputsizes may be given for a parameter: a type of _pg_types, None,
\* or an object that is no key of _pg_types
InputTypes == DOMAIN _pg_types \cup {None, "OTHER"}

\* _pg_types.get(typ)
PgTypesGet(typ) == IF typ \in DOMAIN _pg_types THEN _pg_types[typ] ELSE None

\* self._inputsizes: None until setinputsizes(*inputsizes) stores its tuple
InputSizes ==
    {[set |-> FALSE, types |-> <<>>]}
       \cup {[set |-> TRUE, types |-> t] :
               t \in UNION {[1..n -> InputTypes] : n \in 0..MaxParams}}

\* the parameter tuples, told apart by their length
Params == {[i \in 1..n |-> i] : n \in 0..MaxParams}

\* "$%d" % idx and "$%d::%s" % (idx, typ): the number and the cast name
Placeholder(idx, typ) == [idx |-> idx, cast |-> typ]

\* not self._inputsizes
NoInputSizes(inputsizes) == ~inputsizes.set \/ inputsizes.types = <<>>

\* _parameter_placeholders(params) of a cursor with the given _inputsizes
ParameterPlaceholders(inputsizes, params) ==
    IF NoInputSizes(inputsizes)
    THEN [idx \in 1..Len(params) |-> Placeholder(idx, None)]
    ELSE [idx \in 1..Len(inputsizes.types) |->
            Placeholder(idx, PgTypesGet(inputsizes.types[idx]))]

\* the cursor renders the placeholders of a parameter tuple
RenderPlaceholders(p) ==
    /\ pc[p] = "_parameter_placeholders"
    /\ Finish(p, [task |-> p, ev |-> "returned",
                  op |-> "_parameter_placeholders",
                  params |-> call[p].params,
                  inputsizes |-> call[p].inputsizes,
                  placeholders |->
                     ParameterPlaceholders(call[p].inputsizes, call[p].params)])
    /\ UNCHANGED <<_transaction, _started, isolation_level, _isolation_setting,
                   _execute_mutex, _prepared_statement_cache, conn_asof,
                   dialect_asof, cursor_asof, is_closed, now, n_calls,
                   driver_calls, seen>>

\* A cursor with any input sizes, or none, is given any parameter tuple.
PlaceholderInit ==
    /\ Constructed(0, 1)
    /\ now = 1
    /\ dialect_asof = 0
    /\ cursor_asof = [p \in Tasks |-> 0]
    /\ pc = [p \in Tasks |->
               IF p = 1 THEN "_parameter_placeholders" ELSE "idle"]
    /\ \E inputsizes \in InputSizes, params \in Params :
          call = [p \in Tasks |->
                    IF p = 1
                    THEN [op |-> "_parameter_placeholders",
                          inputsizes |-> inputsizes, params |-> params]
                    ELSE NoCall]
    /\ n_calls = 0
    /\ driver_calls = <<>>
    /\ seen = [s \in Statements |-> NotSeen]
    /\ last = Ev(0, "init")

PlaceholderNext == \E p \in Tasks : RenderPlaceholders(p)

PlaceholderSpec == PlaceholderInit /\ [][PlaceholderNext]_vars

(***************************************************************************)
(* AsyncAdapt_asyncpg_ss_cursor.fetchmany                                  *)
(***************************************************************************)
MaxRows == 3

\* the rows _buffer_rows asks the streaming handle for
PrefetchSize == 50

\* buf[0:n] and buf[n:]
Take(rows, n) == SubSeq(rows, 1, IF n < Len(rows) THEN n ELSE Len(rows))
Drop(rows, n) == SubSeq(rows, (IF n < Len(rows) THEN n ELSE Len(rows)) + 1, Len(rows))

\* the rows m..n in their order
Rows(m, n) == [i \in 1..(n - m + 1) |-> m + i - 1]

\* self._rowbuffer: None, or a deque of rows
RowBuffer(present, rows) == [present |-> present, rows |-> rows]

\* not self._rowbuffer
BufferEmpty(rowbuffer) == ~rowbuffer.present \/ rowbuffer.rows = <<>>

RestSizeWhole(size, lb) == size

\* the rows the second fetch asks for
RestSize(size, lb) == size - lb

\* the cursor awaits self._cursor.fetch(n)
IssueFetch(p, await, n) ==
    /\ pc' = [pc EXCEPT ![p] = await]
    /\ driver_calls' =
          Append(driver_calls, [id |-> 0, call |-> "fetch", size |-> n])

\* fetchmany is over, returning or raising
FetchManyEnd(p, ev, result, rowbuffer, error) ==
    [task |-> p, ev |-> ev, op |-> call[p].op, size |-> call[p].size,
     buffered |-> call[p].buffered, remaining |-> call[p].remaining,
     result |-> result, _rowbuffer |-> rowbuffer, error |-> error]

\* a fetch method is over: the cursor keeps its buffer and its handle, the
\* caller has the rows of `result`
FetchDone(p, event, stream) ==
    /\ pc' = [pc EXCEPT ![p] = "idle"]
    /\ call' = [call EXCEPT ![p] =
                  [call[p] EXCEPT !.op = None,
                                  !._rowbuffer = event._rowbuffer,
                                  !.stream = stream,
                                  !.returned = @ \o event.result]]
    /\ last' = event

\* fetchmany from `buf = list(self._rowbuffer)` on
FetchManyRest(p, rows) ==
    IF call[p].size > Len(rows)
    THEN /\ IssueFetch(p, "fetch", RestSize(call[p].size, Len(rows)))
         /\ call' = [call EXCEPT ![p]._rowbuffer = RowBuffer(TRUE, rows)]
         /\ last' = Ev(p, "step")
    ELSE /\ FetchDone(p, FetchManyEnd(p, "returned", Take(rows, call[p].size),
                                      RowBuffer(TRUE, Drop(rows, call[p].size)),
                                      None),
                      call[p].stream)
         /\ UNCHANGED driver_calls

\* fetchmany(size) with a size: an empty buffer is filled by _buffer_rows first
FetchMany(p) ==
    /\ pc[p] = "fetchmany"
    /\ IF BufferEmpty(call[p]._rowbuffer)
       THEN /\ IssueFetch(p, "_buffer_rows", PrefetchSize)
            /\ UNCHANGED call
            /\ last' = Ev(p, "step")
       ELSE FetchManyRest(p, call[p]._rowbuffer.rows)
    /\ UNCHANGED <<_transaction, _started, isolation_level, _isolation_setting,
                   _execute_mutex, _prepared_statement_cache, conn_asof,
                   dialect_asof, cursor_asof, is_closed, now, n_calls, seen>>

\* an awaited fetch raised: nothing in the fetch methods catches it
FetchRaise(p, error) ==
    /\ FetchDone(p, FetchManyEnd(p, "raised", <<>>, call[p]._rowbuffer,
                                 error.cls),
                 call[p].stream)
    /\ UNCHANGED driver_calls

\* `self._cursor.fetch(50)` of _buffer_rows is over; the handle gives the rows
\* it has left, up to the number asked for
BufferRowsReturn(p) ==
    /\ pc[p] = "_buffer_rows"
    /\ \/ LET new_rows == Take(call[p].stream, PrefetchSize)
              c == [call[p] EXCEPT !.stream = Drop(@, PrefetchSize),
                                   !._rowbuffer = RowBuffer(TRUE, new_rows)]
          IN IF c.size > Len(new_rows)
             THEN /\ IssueFetch(p, "fetch", RestSize(c.size, Len(new_rows)))
                  /\ call' = [call EXCEPT ![p] = c]
                  /\ last' = Ev(p, "step")
             ELSE /\ FetchDone(p, FetchManyEnd(p, "returned",
                                               Take(new_rows, c.size),
                                               RowBuffer(TRUE, Drop(new_rows, c.size)),
                                               None),
                               c.stream)
                  /\ UNCHANGED driver_calls
       \/ \E error \in DriverErrors : FetchRaise(p, error)
    /\ UNCHANGED <<_transaction, _started, isolation_level, _isolation_setting,
                   _execute_mutex, _prepared_statement_cache, conn_asof,
                   dialect_asof, cursor_asof, is_closed, now, n_calls, seen>>

\* `self._cursor.fetch(size - lb)` is over
FetchReturn(p) ==
    /\ pc[p] = "fetch" /\ call[p].op = "fetchmany"
    /\ \/ LET asked == driver_calls[Len(driver_calls)].size
              buf == call[p]._rowbuffer.rows \o Take(call[p].stream, asked)
          IN /\ FetchDone(p, FetchManyEnd(p, "returned", Take(buf, call[p].size),
                                          RowBuffer(TRUE, Drop(buf, call[p].size)),
                                          None),
                          Drop(call[p].stream, asked))
             /\ UNCHANGED driver_calls
       \/ \E error \in DriverErrors : FetchRaise(p, error)
    /\ UNCHANGED <<_transaction, _started, isolation_level, _isolation_setting,
                   _execute_mutex, _prepared_statement_cache, conn_asof,
                   dialect_asof, cursor_asof, is_closed, now, n_calls, seen>>

\* A server side cursor after its execute: no buffer yet, or a buffer of rows
\* left by earlier fetches, some rows left in the streaming handle, and
\* fetchmany is called with a size.
FetchInit ==
    /\ Constructed(0, 1)
    /\ now = 1
    /\ dialect_asof = 0
    /\ cursor_asof = [p \in Tasks |-> 0]
    /\ pc = [p \in Tasks |-> IF p = 1 THEN "fetchmany" ELSE "idle"]
    /\ \E buffered \in 0..MaxRows, remaining \in 0..MaxRows,
          size \in 0..(2 * MaxRows + 1), present \in BOOLEAN :
          /\ buffered > 0 => present
          /\ call = [p \in Tasks |->
                       IF p = 1
                       THEN [op |-> "fetchmany", size |-> size,
                             _rowbuffer |-> RowBuffer(present, Rows(1, buffered)),
                             stream |-> Rows(buffered + 1, buffered + remaining),
                             buffered |-> buffered, remaining |-> remaining,
                             returned |-> <<>>]
                       ELSE NoCall]
    /\ n_calls = 0
    /\ driver_calls = <<>>
    /\ seen = [s \in Statements |-> NotSeen]
    /\ last = Ev(0, "init")

FetchNext ==
    \E p \in Tasks : FetchMany(p) \/ BufferRowsReturn(p) \/ FetchReturn(p)

FetchSpec == FetchInit /\ [][FetchNext]_vars

(***************************************************************************)
(* AsyncAdapt_asyncpg_ss_cursor: execute, then fetchone, fetchmany and     *)
(* fetchall in any order on the one cursor                                 *)
(***************************************************************************)
MaxExecutes == 2

\* the rows _all asks the streaming handle for, batch after batch
DrainSize == 1000

\* the sizes fetchmany is called with
FetchManySizes == 1..(MaxRows + 1)

\* AsyncAdapt_asyncpg_ss_cursor(adapt_connection): no handle, no buffer
NewSsCursor ==
    [op |-> None, size |-> 0, _cursor |-> FALSE,
     _rowbuffer |-> RowBuffer(FALSE, <<>>), stream |-> <<>>,
     buffered |-> 0, remaining |-> 0, returned |-> <<>>,
     result |-> <<>>, issued |-> 0, executes |-> 0,
     before |-> [_rowbuffer |-> RowBuffer(FALSE, <<>>), stream |-> <<>>],
     ret |-> <<>>, rows |-> <<>>]

\* execute() on the server side cursor succeeded: self._cursor is the handle
\* of a new result, whose rows are new ones; nothing else of the cursor is
\* assigned
SsExecute(p) ==
    /\ pc[p] = "idle" /\ call[p].op = None
    /\ call[p].executes < MaxExecutes
    /\ \E n \in 0..MaxRows :
          LET result == Rows(call[p].issued + 1, call[p].issued + n)
          IN call' = [call EXCEPT ![p] =
                        [call[p] EXCEPT !._cursor = TRUE,
                                        !.stream = result,
                                        !.result = result,
                                        !.returned = <<>>,
                                        !.issued = @ + n,
                                        !.executes = @ + 1]]
    /\ last' = [task |-> p, ev |-> "executed"]
    /\ UNCHANGED <<_transaction, _started, isolation_level, _isolation_setting,
                   _execute_mutex, _prepared_statement_cache, conn_asof,
                   dialect_asof, cursor_asof, is_closed, now, pc, n_calls,
                   driver_calls, seen>>

\* the caller calls fetchone(), fetchmany(size) or fetchall() of a cursor
\* that was executed
CallFetch(p) ==
    /\ pc[p] = "idle" /\ call[p].op = None
    /\ call[p]._cursor
    /\ n_calls < MaxCalls
    /\ \E op \in {"fetchone", "fetchmany", "fetchall"} :
       \E size \in IF op = "fetchmany" THEN FetchManySizes ELSE {0} :
          /\ pc' = [pc EXCEPT ![p] = op]
          /\ call' = [call EXCEPT ![p] =
                        [call[p] EXCEPT !.op = op, !.size = size,
                                        !.buffered = Len(call[p]._rowbuffer.rows),
                                        !.remaining = Len(call[p].stream),
                                        !.before =
                                           [_rowbuffer |-> call[p]._rowbuffer,
                                            stream |-> call[p].stream],
                                        !.ret = <<>>, !.rows = <<>>]]
    /\ n_calls' = n_calls + 1
    /\ driver_calls' = <<>>
    /\ last' = [task |-> p, ev |-> "called"]
    /\ UNCHANGED <<_transaction, _started, isolation_level, _isolation_setting,
                   _execute_mutex, _prepared_statement_cache, conn_asof,
                   dialect_asof, cursor_asof, is_closed, now, seen>>

\* fetchone(): an empty buffer is filled by _buffer_rows first
FetchOne(p) ==
    /\ pc[p] = "fetchone"
    /\ IF BufferEmpty(call[p]._rowbuffer)
       THEN /\ IssueFetch(p, "fetchone._buffer_rows", PrefetchSize)
            /\ UNCHANGED call
            /\ last' = Ev(p, "step")
       ELSE /\ FetchDone(p, FetchManyEnd(p, "returned",
                                         Take(call[p]._rowbuffer.rows, 1),
                                         RowBuffer(TRUE, Drop(call[p]._rowbuffer.rows, 1)),
                                         None),
                         call[p].stream)
            /\ UNCHANGED driver_calls
    /\ UNCHANGED <<_transaction, _started, isolation_level, _isolation_setting,
                   _execute_mutex, _prepared_statement_cache, conn_asof,
                   dialect_asof, cursor_asof, is_closed, now, n_calls, seen>>

\* the fetch(50) that fetchone's _buffer_rows awaited is over: None when the
\* new buffer is empty (the empty `result`), its first row otherwise
FetchOneReturn(p) ==
    /\ pc[p] = "fetchone._buffer_rows"
    /\ \/ LET new_rows == Take(call[p].stream, PrefetchSize)
          IN FetchDone(p, FetchManyEnd(p, "returned", Take(new_rows, 1),
                                       RowBuffer(TRUE, Drop(new_rows, 1)),
                                       None),
                       Drop(call[p].stream, PrefetchSize))
       \/ \E error \in DriverErrors :
             FetchDone(p, FetchManyEnd(p, "raised", <<>>, call[p]._rowbuffer,
                                       error.cls),
                       call[p].stream)
    /\ UNCHANGED <<_transaction, _started, isolation_level, _isolation_setting,
                   _execute_mutex, _prepared_statement_cache, conn_asof,
                   dialect_asof, cursor_asof, is_closed, now, n_calls,
                   driver_calls, seen>>

\* fetchall(): list(self._rowbuffer) is evaluated first and raises TypeError
\* on None; then _all() is awaited
FetchAll(p) ==
    /\ pc[p] = "fetchall"
    /\ IF ~call[p]._rowbuffer.present
       THEN /\ FetchDone(p, FetchManyEnd(p, "raised", <<>>, call[p]._rowbuffer,
                                         "TypeError"),
                         call[p].stream)
            /\ UNCHANGED driver_calls
       ELSE /\ IssueFetch(p, "_all", DrainSize)
            /\ call' = [call EXCEPT ![p].ret = call[p]._rowbuffer.rows]
            /\ last' = Ev(p, "step")
    /\ UNCHANGED <<_transaction, _started, isolation_level, _isolation_setting,
                   _execute_mutex, _prepared_statement_cache, conn_asof,
                   dialect_asof, cursor_asof, is_closed, now, n_calls, seen>>

\* a fetch(1000) of _all is over: a batch with rows is kept and the next one
\* asked for, an empty batch ends the loop and fetchall clears the buffer
AllReturn(p) ==
    /\ pc[p] = "_all"
    /\ \/ LET batch == Take(call[p].stream, DrainSize)
          IN IF batch # <<>>
             THEN /\ IssueFetch(p, "_all", DrainSize)
                  /\ call' = [call EXCEPT ![p] =
                                [call[p] EXCEPT !.rows = @ \o batch,
                                                !.stream = Drop(@, DrainSize)]]
                  /\ last' = Ev(p, "step")
             ELSE /\ FetchDone(p, FetchManyEnd(p, "returned",
                                               call[p].ret \o call[p].rows,
                                               RowBuffer(TRUE, <<>>), None),
                               call[p].stream)
                  /\ UNCHANGED driver_calls
       \/ \E error \in DriverErrors : FetchRaise(p, error)
    /\ UNCHANGED <<_transaction, _started, isolation_level, _isolation_setting,
                   _execute_mutex, _prepared_statement_cache, conn_asof,
                   dialect_asof, cursor_asof, is_closed, now, n_calls, seen>>

SsInit ==
    /\ Constructed(0, 1)
    /\ now = 1
    /\ dialect_asof = 0
    /\ cursor_asof = [p \in Tasks |-> 0]
    /\ pc = [p \in Tasks |-> "idle"]
    /\ call = [p \in Tasks |-> IF p = 1 THEN NewSsCursor ELSE NoCall]
    /\ n_calls = 0
    /\ driver_calls = <<>>
    /\ seen = [s \in Statements |-> NotSeen]
    /\ last = Ev(0, "init")

SsNext ==
    \E p \in CacheTasks :
       \/ SsExecute(p)
       \/ CallFetch(p)
       \/ FetchOne(p)
       \/ FetchOneReturn(p)
       \/ FetchMany(p)
       \/ BufferRowsReturn(p)
       \/ FetchReturn(p)
       \/ FetchAll(p)
       \/ AllReturn(p)

SsSpec == SsInit /\ [][SsNext]_vars

(***************************************************************************)
(* AsyncAdapt_asyncpg_cursor: fetchone, fetchmany, fetchall and close of   *)
(* the cursor that buffers its whole result                                *)
(***************************************************************************)
\* the values of self.arraysize: 1 unless the caller assigned another
ArraySizes == {1, 2}

\* the size argument of fetchmany: not given (None), or a number
Size(given, n) == [given |-> given, n |-> n]

FetchManyArgs == {Size(FALSE, 0)} \cup {Size(TRUE, n) : n \in 0..(MaxRows + 1)}

DefaultSizeOne(size, arraysize) == IF size.given THEN size.n ELSE 1

\* `if size is None: size = self.arraysize`
DefaultSize(size, arraysize) == IF size.given THEN size.n ELSE arraysize

\* a method of the cursor returned: what it was given, what it found in _rows,
\* what it gave back (`none`: the value None instead of rows)
RowsEnd(p, op, size, result, none) ==
    [task |-> p, ev |-> "returned", op |-> op, size |-> size,
     before |-> call[p]._rows, result |-> result, none |-> none]

\* the method leaves `rows` in self._rows
RowsDone(p, event, rows) ==
    /\ pc[p] = "idle"
    /\ n_calls < MaxCalls
    /\ n_calls' = n_calls + 1
    /\ call' = [call EXCEPT ![p] =
                  [call[p] EXCEPT !._rows = rows,
                                  !.returned = @ \o event.result,
                                  !.closed = @ \/ event.op = "close"]]
    /\ last' = event
    /\ UNCHANGED <<_transaction, _started, isolation_level, _isolation_setting,
                   _execute_mutex, _prepared_statement_cache, conn_asof,
                   dialect_asof, cursor_asof, is_closed, now, pc,
                   driver_calls, seen>>

\* fetchone(): self._rows.pop(0), or None
RowsFetchOne(p) ==
    LET rows == call[p]._rows
    IN IF rows # <<>>
       THEN RowsDone(p, RowsEnd(p, "fetchone", Size(FALSE, 0), <<Head(rows)>>,
                                FALSE),
                     Tail(rows))
       ELSE RowsDone(p, RowsEnd(p, "fetchone", Size(FALSE, 0), <<>>, TRUE),
                     rows)

\* fetchmany(size): self._rows[0:size], leaving self._rows[size:]
RowsFetchMany(p) ==
    \E arg \in FetchManyArgs :
       LET size == DefaultSize(arg, call[p].arraysize)
       IN RowsDone(p, RowsEnd(p, "fetchmany", arg, Take(call[p]._rows, size),
                              FALSE),
                   Drop(call[p]._rows, size))

\* fetchall(): self._rows[:], leaving nothing
RowsFetchAll(p) ==
    RowsDone(p, RowsEnd(p, "fetchall", Size(FALSE, 0), call[p]._rows, FALSE),
             <<>>)

\* close(): self._rows[:] = []
RowsClose(p) ==
    RowsDone(p, RowsEnd(p, "close", Size(FALSE, 0), <<>>, FALSE), <<>>)

\* a cursor whose execute put the rows of its result in self._rows
RowsInit ==
    /\ Constructed(0, 1)
    /\ now = 1
    /\ dialect_asof = 0
    /\ cursor_asof = [p \in Tasks |-> 0]
    /\ pc = [p \in Tasks |-> "idle"]
    /\ \E n \in 0..MaxRows, arraysize \in ArraySizes :
          call = [p \in Tasks |->
                    IF p = 1
                    THEN [op |-> None, _rows |-> Rows(1, n),
                          arraysize |-> arraysize, result |-> Rows(1, n),
                          returned |-> <<>>, closed |-> FALSE]
                    ELSE NoCall]
    /\ n_calls = 0
    /\ driver_calls = <<>>
    /\ seen = [s \in Statements |-> NotSeen]
    /\ last = Ev(0, "init")

RowsNext ==
    \E p \in CacheTasks :
       \/ RowsFetchOne(p)
       \/ RowsFetchMany(p)
       \/ RowsFetchAll(p)
       \/ RowsClose(p)

RowsSpec == RowsInit /\ [][RowsNext]_vars

(***************************************************************************)
(* execute and executemany with a statement whose placeholders cannot be   *)
(* rendered, and the scheduling of the coroutines                          *)
(***************************************************************************)
\* `operation % self._parameter_placeholders(parameters)` raises
SubstitutionError == [cls |-> "TypeError", sqlstate |-> Absent]

\* the coroutine of task p runs up to the placeholder substitution, which
\* raises: outside any try block and inside `async with`, which releases the
\* mutex.  It gets there from the acquisition of the mutex when no start and
\* no reload is awaited, and from the return of start() or, in _executemany,
\* of reload_schema_state() when no start is awaited after it.
SubstitutionRaise(p) ==
    \/ /\ pc[p] = "wait_mutex"
       /\ MutexFree(_execute_mutex)
       /\ ~NeedsStart(_started, isolation_level)
       /\ call[p].op = "executemany" => ~NeedsReload(cursor_asof[p], conn_asof)
       /\ RaiseNative(p, SubstitutionError, is_closed)
    \/ /\ pc[p] = "start"
       /\ ~is_closed
       /\ _started' = TRUE
       /\ is_closed' = is_closed
       /\ _execute_mutex' = 0
       /\ Finish(p, EndEvent(p, call[p].op, "raised", pc[p], FALSE,
                             SubstitutionError.cls))
       /\ driver_calls' = Pruned(driver_calls, InProgress(p))
       /\ UNCHANGED <<_transaction, isolation_level, _isolation_setting,
                      _prepared_statement_cache, conn_asof, dialect_asof,
                      cursor_asof, now, n_calls, seen>>
    \/ /\ pc[p] = "reload_schema_state"
       /\ call[p].op = "executemany"
       /\ ~is_closed
       /\ ~NeedsStart(_started, isolation_level)
       /\ conn_asof' = cursor_asof[p]
       /\ is_closed' = is_closed
       /\ _execute_mutex' = 0
       /\ Finish(p, EndEvent(p, call[p].op, "raised", pc[p], FALSE,
                             SubstitutionError.cls))
       /\ driver_calls' = Pruned(driver_calls, InProgress(p))
       /\ UNCHANGED <<_transaction, _started, isolation_level,
                      _isolation_setting, _prepared_statement_cache,
                      dialect_asof, cursor_asof, now, n_calls, seen>>

LiveNext ==
    \E p \in Tasks :
       \/ ExecuteCall(p)
       \/ Acquire(p)
       \/ SubstitutionRaise(p)
       \/ StartReturn(p)
       \/ ReloadReturn(p)
       \/ PrepareReturn(p)
       \/ StatementReturn(p)
       \/ Commit(p)
       \/ CommitReturn(p)

\* every awaited driver call returns or raises, and a coroutine waiting for
\* the mutex gets it when it is free again and again (asyncio.Lock wakes its
\* waiters in the order they came)
Fairness ==
    \A p \in Tasks :
       /\ SF_vars(Acquire(p) \/ SubstitutionRaise(p))
       /\ WF_vars(StartReturn(p))
       /\ WF_vars(ReloadReturn(p))
       /\ WF_vars(PrepareReturn(p))
       /\ WF_vars(StatementReturn(p))
       /\ WF_vars(CommitReturn(p))

LiveSpec == Init /\ [][LiveNext]_vars /\ Fairness

(***************************************************************************)
(* A DDL statement executed through the dialect on another connection,     *)
(* while this connection prepares and caches statements                    *)
(***************************************************************************)
\* the task that executes the DDL statement, on a connection of its own
DdlTask == 2

\* the handles in the prepared statement cache
CachedHandles(cache) ==
    {cache.entry[s].stmt : s \in {k \in Statements : LRUContains(cache, k)}}

\* pre_exec of the DDL statement bumps the dialect's timestamp; the statement
\* is sent after it and is in progress from here on
DdlPreExec(p) ==
    /\ pc[p] = "idle" /\ call[p] = NoCall
    /\ dialect_asof' = InvalidateSchemaCache(now)
    /\ seen' = [s \in Statements |->
                  IF seen[s] = NotSeen \/ seen[s].bump # 0
                  THEN seen[s]
                  ELSE [seen[s] EXCEPT !.bump = InvalidateSchemaCache(now)]]
    /\ pc' = [pc EXCEPT ![p] = "ddl"]
    /\ call' = [call EXCEPT ![p] = [op |-> "ddl", id |-> 0]]
    /\ last' = [task |-> p, ev |-> "pre_exec", isddl |-> TRUE]
    /\ UNCHANGED <<_transaction, _started, isolation_level, _isolation_setting,
                   _execute_mutex, _prepared_statement_cache, conn_asof,
                   cursor_asof, is_closed, now, n_calls, driver_calls>>

\* the DDL statement completed: the handles cached by then were compiled
\* before it did, and the calls made so far were made before it did
DdlReturn(p) ==
    /\ pc[p] = "ddl"
    /\ pc' = [pc EXCEPT ![p] = "idle"]
    /\ call' = [call EXCEPT
                  ![p] = [op |-> "ddl_done", id |-> 0,
                          compiled_before |->
                             CachedHandles(_prepared_statement_cache),
                          calls_before |-> n_calls]]
    /\ last' = Ev(p, "ddl_done")
    /\ UNCHANGED <<_transaction, _started, isolation_level, _isolation_setting,
                   _execute_mutex, _prepared_statement_cache, conn_asof,
                   dialect_asof, cursor_asof, is_closed, now, n_calls,
                   driver_calls, seen>>

DdlNext ==
    \/ Tick
    \/ \E p \in CacheTasks :
          \/ PreExec(p)
          \/ ExecuteCall(p)
          \/ Acquire(p)
          \/ StartReturn(p)
          \/ ReloadReturn(p)
          \/ PrepareReturn(p)
          \/ StatementReturn(p)
    \/ DdlPreExec(DdlTask)
    \/ DdlReturn(DdlTask)

DdlSpec == CacheInit /\ [][DdlNext]_vars

(***************************************************************************)
(* Properties                                                              *)
(***************************************************************************)
Quiescent == \A p \in Tasks : pc[p] = "idle"

\* task p is inside `async with _execute_mutex`, suspended in a driver call
InExecute(p) ==
    pc[p] \in {"start", "reload_schema_state", "prepare", "fetch", "executemany"}

\* task p is suspended in a native commit or rollback
InTxControl(p) == pc[p] \in {"commit", "rollback"}

\* C1: commit() and rollback() called with a transaction open (the native call
\* is made) leave _transaction empty and _started false when they return and
\* when they raise, whether the native call succeeded or failed.
C1_CommitRollbackClearTransaction ==
    (/\ last.ev \in {"returned", "raised", "rolled_back"}
     /\ last.native \in {"commit", "rollback"})
    => (_transaction = None /\ ~_started)

\* C1 witness: a commit whose native call failed on a connection that stayed
\* open has raised, and the transaction state is cleared.
C1_Witness ==
    /\ last.ev = "raised"
    /\ last.op = "commit"
    /\ ~is_closed
    /\ _transaction = None /\ ~_started

\* C2: whenever no call is in progress on the connection, _transaction is
\* non-empty if and only if _started is true.
C2_TransactionIffStarted ==
    Quiescent => ((_transaction # None) <=> _started)

\* the driver calls of each call stand next to each other in `calls`
Contiguous(calls) ==
    \A i, j, k \in 1..Len(calls) :
       (i < j /\ j < k /\ calls[i].id = calls[k].id) => calls[j].id = calls[i].id

\* C3: at most one execute/executemany call is inside the execution mutex at any
\* time, the mutex is held by that call, and the driver calls of each call form
\* one contiguous block in the order of the connection's driver calls.
C3_ExecutionsSerialized ==
    /\ \A p, q \in Tasks : (InExecute(p) /\ InExecute(q)) => p = q
    /\ \A p \in Tasks : InExecute(p) => _execute_mutex = p
    /\ Contiguous(driver_calls)

\* C3 witness: a call is at its second driver call or later while another
\* call, issued concurrently, waits for the mutex.
C3_Witness ==
    \E p, q \in Tasks :
       /\ InExecute(p)
       /\ pc[q] = "wait_mutex"
       /\ Len(SelectSeq(driver_calls, LAMBDA c : c.id = call[p].id)) >= 2

\* C4: transaction control is serialized with statement execution by the
\* execution mutex: no native commit or rollback is in flight while an
\* execute or executemany of another task is between its driver calls.
C4_TransactionControlSerialized ==
    \A p, q \in Tasks : ~(InExecute(p) /\ InTxControl(q))

\* C10: a driver failure during execute or executemany reaches the caller only
\* through the exception translator.
C10_DriverFailuresTranslated ==
    (last.ev = "raised" /\ last.op \in {"execute", "executemany"})
    => last.translated

\* _prepare has just returned to the cursor
Prepared == last.ev = "prepared"

\* the driver's prepare was awaited by the call whose _prepare just returned
DriverPrepared ==
    \E i \in 1..Len(driver_calls) :
       driver_calls[i] = [id |-> last.id, call |-> "prepare"]

\* _prepare returned for the same text before, to a caller whose timestamp was
\* not greater, and the invalidation timestamp was not bumped since
Repeated ==
    /\ Prepared
    /\ last.seen_before # NotSeen
    /\ last.seen_before.bump = 0
    /\ last.seen_before.t <= last.t

\* the text still has its entry and the entry was created after time t
FreshEntry ==
    /\ LRUContains(last.cache_before, last.sql)
    /\ last.cache_before.entry[last.sql].ts > last.t

\* what a cache hit hands back: the handle and attributes of the earlier call,
\* with no call of the driver's prepare
SameHandle ==
    /\ last.hit
    /\ last.stmt = last.seen_before.stmt
    /\ last.attributes = GetAttributes(last.seen_before.stmt)
    /\ ~DriverPrepared

\* C5 as stated: with caching enabled and no invalidation bump, every
\* _prepare(s, t) after the first, t not decreasing, is a cache hit returning
\* the handle and attributes of the first call without the driver's prepare.
C5_RepeatedPrepareHits == Repeated => SameHandle

\* C5 amended: the repeated call is a cache hit returning the identical handle
\* and attributes provided the entry of s has not been evicted and its
\* creation timestamp is strictly greater than the t of the call.
C5_RepeatedPrepareHitsFreshEntry == (Repeated /\ FreshEntry) => SameHandle

\* C5 witness: a repeated _prepare found its entry, created after t, and
\* returned the handle of the earlier call.
C5_Witness == Repeated /\ FreshEntry /\ last.hit /\ last.seen_before.stmt # 0

\* the invalidation timestamp was bumped after _prepare last returned for the
\* text, and this call was made with the bumped timestamp
BumpedBetween ==
    /\ Prepared
    /\ last.seen_before # NotSeen
    /\ last.seen_before.bump # 0
    /\ last.t >= last.seen_before.bump

\* C6: when the invalidation timestamp is bumped between two _prepare calls
\* for one text, the second call, made with the bumped timestamp, does not
\* return the cached handle: the driver's prepare is called again and the
\* entry is replaced by the new handle, its attributes and the time read now.
C6_BumpForcesRebuild ==
    BumpedBetween =>
       /\ ~last.hit
       /\ last.stmt # last.seen_before.stmt
       /\ DriverPrepared
       /\ LRUContains(_prepared_statement_cache, last.sql)
       /\ _prepared_statement_cache.entry[last.sql] =
             [stmt |-> last.stmt, attributes |-> GetAttributes(last.stmt),
              ts |-> now]
       /\ now >= last.seen_before.bump

\* C6 witness: the second call found the entry of the first still cached and
\* replaced it.
C6_Witness ==
    /\ BumpedBetween
    /\ LRUContains(last.cache_before, last.sql)
    /\ last.cache_before.entry[last.sql].stmt = last.seen_before.stmt
    /\ _prepared_statement_cache.entry[last.sql].stmt = last.stmt
    /\ last.stmt # last.seen_before.stmt

\* C7: _prepare returns a cached entry only if the entry's creation timestamp
\* is strictly greater than the schema-invalidation timestamp the connection
\* remembers, whatever the timestamp of the calling cursor.
C7_HitOnlyIfNewerThanConnection ==
    (Prepared /\ last.hit)
    => last.cache_before.entry[last.sql].ts > last.asof

Keys(cache) == {cache.order[i] : i \in 1..Len(cache.order)}

\* the keys that left the cache in the _prepare that just returned
Evicted == Keys(last.cache_before) \ Keys(_prepared_statement_cache)

\* key k was touched least recently of the keys cached before the _prepare
LeastRecentlyTouched(k) ==
    \A j \in Keys(last.cache_before) :
       last.touched_before[k] <= last.touched_before[j]

\* C8: the cache of capacity N never holds more than N entries; its keys are
\* ordered by the call that touched them last; the text whose _prepare just
\* returned, hit or not, is the most recently used; a new text stored into
\* a full cache evicts exactly the least recently touched entry and nothing
\* is evicted otherwise.
C8_StrictLRU ==
    LET cache == _prepared_statement_cache
    IN /\ Len(cache.order) <= cache.capacity
       /\ Cardinality(Keys(cache)) = Len(cache.order)
       /\ DOMAIN cache.entry = Keys(cache)
       /\ \A i, j \in 1..Len(cache.order) :
             i < j => seen[cache.order[i]].touched < seen[cache.order[j]].touched
       /\ Prepared =>
             /\ cache.order[Len(cache.order)] = last.sql
             /\ IF /\ last.sql \notin Keys(last.cache_before)
                   /\ Len(last.cache_before.order) = cache.capacity
                THEN \E k \in Keys(last.cache_before) :
                        Evicted = {k} /\ LeastRecentlyTouched(k)
                ELSE Evicted = {}

\* C8 witness: CacheSize + 1 texts were prepared and the entry evicted is not
\* the one stored first, because that one was read again in between.
C8_Witness ==
    /\ Prepared
    /\ \E k \in Evicted :
          \E j \in Keys(_prepared_statement_cache) \cap Keys(last.cache_before) :
             last.cache_before.entry[j].stmt < last.cache_before.entry[k].stmt

\* _handle_exception was called on its own and is over
Handled == last.op = "_handle_exception"

\* the positions of type(error).__mro__ that hold a key of the mapping
MappedPositions(cls) ==
    {i \in 1..Len(NativeMRO[cls]) : NativeMRO[cls][i] \in DOMAIN exception_mapping}

\* C9: _handle_exception always raises. A native error is raised as the
\* generic class mapped to the most specific class of its inheritance chain
\* that is a key of the mapping (an integrity violation as IntegrityError),
\* carrying the native sqlstate, or None, as sqlstate and pgcode and the native
\* error as its cause; an error without a mapped ancestor and an error that is
\* a generic Error already are raised unchanged.
C9_HandleExceptionTranslates ==
    /\ Quiescent => (last.ev = "raised" /\ Handled)
    /\ (last.ev = "raised" /\ Handled) =>
          LET error == last.input
              raised == last.error
              state == IF error.sqlstate = Absent THEN None ELSE error.sqlstate
          IN IF error.cls \in GenericClasses \/ MappedPositions(error.cls) = {}
             THEN raised = error
             ELSE /\ \E i \in MappedPositions(error.cls) :
                        /\ \A j \in MappedPositions(error.cls) : i <= j
                        /\ raised.cls = exception_mapping[NativeMRO[error.cls][i]]
                  /\ raised.sqlstate = state
                  /\ raised.pgcode = state
                  /\ raised.cause = error.cls
                  /\ error.cls \in {"asyncpg_UniqueViolationError",
                                    "asyncpg_IntegrityConstraintViolationError"}
                        => raised.cls = "IntegrityError"

\* C9 witness: a unique violation with sqlstate 23505, whose class is not a
\* key of the mapping but whose parent is, was raised as IntegrityError.
C9_Witness ==
    /\ last.ev = "raised" /\ Handled
    /\ last.input = [cls |-> "asyncpg_UniqueViolationError", sqlstate |-> "23505"]
    /\ last.error.cls = "IntegrityError"
    /\ last.error.pgcode = "23505"

\* a step in which an idle task calls commit() or rollback() (on its own or
\* from set_isolation_level or close) and the native call is awaited
NativeTxCall ==
    \E p \in Tasks : pc[p] = "idle" /\ pc'[p] \in {"commit", "rollback"}

\* what every step does about failures on a closed connection
ClosedCleanup ==
    /\ (last'.ev = "raised" /\ last'.translated /\ is_closed')
          => (_transaction' = None /\ ~_started')
    /\ (is_closed /\ ~_started)
          => (is_closed' /\ ~_started' /\ ~NativeTxCall)

\* C11: a failure translated while the native connection is closed leaves
\* _transaction empty and _started false when the error is raised; from then
\* on the connection stays closed with no transaction started, and every
\* rollback() or commit(), the rollback inside close() included, returns
\* without a native transaction call.
C11_ClosedConnectionCleared == [][ClosedCleanup]_vars

\* C11 witness: a fetch inside a transaction failed on a connection found
\* closed; the error was raised translated and the transaction state is
\* cleared.
C11_Witness ==
    /\ last.ev = "raised"
    /\ last.native = "fetch"
    /\ last.translated
    /\ is_closed
    /\ isolation_level # "autocommit"
    /\ _transaction = None /\ ~_started

\* C12: whenever no call is in progress and isolation_level is "autocommit",
\* no transaction is open.
C12_AutocommitNeverOpen ==
    (Quiescent /\ isolation_level = "autocommit") => ~_started

\* a transaction exists: it is started, or its start() is being awaited
Open == _started \/ \E p \in Tasks : pc[p] = "start"

\* the step is the return of set_isolation_level
LevelSet == last'.ev = "returned" /\ last'.op = "set_isolation_level"

\* the level a set_isolation_level that waited for its rollback was given
Requested(level) ==
    \A p \in Tasks :
       (p = last'.task /\ pc[p] = "rollback") => call[p].level = level

\* set_isolation_level returns with both levels equal to the level given and
\* no transaction open, after the rollback of the transaction that was open
SetsBothLevels ==
    LevelSet =>
       /\ isolation_level' = _isolation_setting'
       /\ Requested(isolation_level')
       /\ ~_started'
       /\ _started => last'.native = "rollback"

\* the sticky setting changes in no other step
OnlySetIsolationLevelSets ==
    _isolation_setting' # _isolation_setting => LevelSet

\* a transaction that exists before and after a step sees one current level
LevelKeptWhileOpen ==
    (Open /\ Open') => isolation_level' = isolation_level

\* C13: set_isolation_level(level) rolls an open transaction back before the
\* level changes and returns with the current level and the sticky setting both
\* equal to level and no transaction open; and no transaction is continued or
\* started under a level other than the one current when it began.
C13_IsolationChangesOutsideTransactions ==
    [][SetsBothLevels /\ OnlySetIsolationLevelSets /\ LevelKeptWhileOpen]_vars

\* the step is a call of the autocommit setter
Toggled == last'.ev = "autocommit"

\* C14: the autocommit setter never changes the sticky isolation setting;
\* given true it makes the current level "autocommit", given false it makes
\* the current level the sticky setting, whatever the sticky setting is and
\* however often it is called.
C14_AutocommitToggleKeepsSticky ==
    [][Toggled =>
          /\ _isolation_setting' = _isolation_setting
          /\ last'.value => isolation_level' = "autocommit"
          /\ ~last'.value => isolation_level' = _isolation_setting]_vars

\* C14 witness: autocommit was on with a sticky setting of serializable, and
\* setting it off made serializable the current level again.
C14_Witness ==
    /\ last.ev = "autocommit"
    /\ ~last.value
    /\ last.was = "autocommit"
    /\ _isolation_setting = "serializable"
    /\ isolation_level = "serializable"

\* close() is called: the native rollback is awaited first when a transaction
\* is open, and the native close at once when none is
CloseRollsBackFirst ==
    \A p \in Tasks :
       (pc[p] = "idle" /\ call'[p] = [op |-> "close"])
          => pc'[p] = IF _started THEN "rollback" ELSE "close"

\* a call of close() ends, returning or raising, only from the await of the
\* native close
CloseAlwaysCloses ==
    (last'.ev \in {"returned", "raised"} /\ last'.op = "close")
       => pc[last'.task] = "close"

\* C15: every call of close() invokes the native connection's close, after the
\* native rollback when a transaction was open and without a rollback call
\* when none was.
C15_CloseRollsBackThenCloses ==
    [][CloseRollsBackFirst /\ CloseAlwaysCloses]_vars

\* the step is a call of handle_dbapi_exception
Handed == last'.ev = "handled"

\* the two conditions of the cache recovery: an invalid cached statement
\* error, and an internal server error with the cache lookup failure signature
RecoveryCondition(e) ==
    \/ e.cls = "InvalidCachedStatementError"
    \/ e.cls = "InternalServerError" /\ e.cache_lookup_failed

\* C16: handle_dbapi_exception advances the dialect's schema invalidation
\* timestamp to the current time for exactly the two recovery conditions and
\* leaves it unchanged for every other error; it makes no driver call, so the
\* failed statement is not executed again.
C16_RecoveryForTwoConditions ==
    [][Handed =>
          /\ RecoveryCondition(last'.error) => dialect_asof' = now
          /\ ~RecoveryCondition(last'.error) => dialect_asof' = dialect_asof
          /\ driver_calls' = driver_calls /\ n_calls' = n_calls /\ pc' = pc
      ]_vars

RECURSIVE Number(_)
Number(digits) ==
    IF digits = <<>> \/ \E i \in 1..Len(digits) : digits[i] \notin Digits THEN -1
    ELSE IF Len(digits) = 1 THEN DigitValue(digits[1])
    ELSE 10 * Number(SubSeq(digits, 1, Len(digits) - 1))
            + DigitValue(digits[Len(digits)])

Rest(text, i) == SubSeq(text, i, Len(text))

\* the count of a status of the form "UPDATE n", "DELETE n" or "INSERT oid n",
\* -1 for every other status and for an absent one
TrailingCount(status) ==
    LET text == status.text
    IN IF ~status.present \/ Len(text) < 3 \/ text[2] # " " THEN -1
       ELSE IF text[1] \in {"UPDATE", "DELETE"} THEN Number(Rest(text, 3))
       ELSE IF text[1] = "INSERT"
       THEN LET blanks == {k \in 4..(Len(text) - 1) :
                             /\ text[k] = " "
                             /\ Number(SubSeq(text, 3, k - 1)) # -1}
            IN IF blanks = {} THEN -1
               ELSE Number(Rest(text, (CHOOSE k \in blanks : TRUE) + 1))
       ELSE -1

\* C18: an execute that has its rows returns; on a normal cursor rowcount is
\* the trailing count of a status of the form "UPDATE n", "DELETE n" or
\* "INSERT oid n" and -1 for every other status, an absent one included; on a
\* server side cursor it is -1.
C18_RowcountFromStatus ==
    Quiescent =>
       /\ last.ev = "returned"
       /\ last.rowcount =
             IF last.server_side THEN -1 ELSE TrailingCount(last.status)

\* the cast name the claim gives the i-th placeholder: none without declared
\* types or for a declared None, else the name of the declared type
DeclaredCast(inputsizes, i) ==
    IF ~inputsizes.set \/ inputsizes.types = <<>> THEN None
    ELSE IF inputsizes.types[i] \in {"STRING"} THEN "varchar"
    ELSE IF inputsizes.types[i] \in {"INTEGER"} THEN "integer"
    ELSE IF inputsizes.types[i] \in {"JSON"} THEN "json"
    ELSE None

\* C19: _parameter_placeholders(params) returns one placeholder per parameter,
\* the i-th numbered i; it is bare without declared input types and when the
\* i-th declared type is None, and carries the cast name of the i-th declared
\* type otherwise.
C19_OnePlaceholderPerParameter ==
    Quiescent =>
       /\ Len(last.placeholders) = Len(last.params)
       /\ \A i \in 1..Len(last.params) :
             /\ last.placeholders[i].idx = i
             /\ last.placeholders[i].cast = DeclaredCast(last.inputsizes, i)

\* fetchmany has ended
Fetched == last.ev \in {"returned", "raised"} /\ last.op = "fetchmany"

\* the sizes of the fetches issued to the streaming handle, in their order
FetchSizes == [i \in 1..Len(driver_calls) |-> driver_calls[i].size]

\* C20 as stated: fetchmany(k) issues exactly one fetch, of size k minus the
\* number of buffered rows, when k exceeds the rows buffered when it is called,
\* an empty buffer included, and no fetch when it does not.
C20_OneFetchOfTheDifference ==
    Fetched =>
       FetchSizes = IF last.size > last.buffered
                    THEN <<last.size - last.buffered>> ELSE <<>>

\* the fetches of a fetchmany(k) that found `buffered` rows in its buffer and
\* `remaining` rows in the handle
ExpectedFetches(k, buffered, remaining) ==
    LET refilled == IF remaining < 50 THEN remaining ELSE 50
    IN IF buffered > 0
       THEN IF k > buffered THEN <<k - buffered>> ELSE <<>>
       ELSE IF k > refilled THEN <<50, k - refilled>> ELSE <<50>>

\* C20 amended: with rows in its buffer fetchmany(k) issues exactly one fetch,
\* of size k minus the rows buffered, when k exceeds them and none when it
\* does not; with an empty buffer it first refills the buffer by one fetch of
\* 50 rows, whatever k is, and issues one more fetch, of size k minus the rows
\* the refill brought, only when k exceeds them.  A call that raises has
\* issued these fetches up to the one that failed.
C20_OneFetchAfterRefill ==
    Fetched =>
       LET expected ==
              ExpectedFetches(last.size, last.buffered, last.remaining)
       IN IF last.ev = "returned" THEN FetchSizes = expected
          ELSE /\ FetchSizes # <<>>
               /\ Len(FetchSizes) <= Len(expected)
               /\ FetchSizes = SubSeq(expected, 1, Len(FetchSizes))

\* C20 witness: fetchmany on an empty buffer returned after the refill of 50
\* and one more fetch for the rows the refill did not bring.
C20_Witness ==
    /\ Fetched
    /\ last.ev = "returned"
    /\ last.buffered = 0
    /\ last.size > last.remaining
    /\ Len(FetchSizes) = 2
    /\ FetchSizes[2] = last.size - last.remaining


\* fetchall() of the server side cursor is over
FetchAllOver == last.ev \in {"returned", "raised"} /\ last.op = "fetchall"

\* the classes of the errors the driver raises
DriverErrorClasses == {error.cls : error \in DriverErrors}

\* the buffer and the stream of the cursor of task 1 when the call was made
RowsBefore == call[1].before._rowbuffer.rows \o call[1].before.stream

\* C21: fetchall() of a server side cursor, called in any state the cursor
\* reaches after a successful execute, fails only when the driver does, and
\* returns the rows of the buffer followed by all the rows left in the stream,
\* got by fetches of 1000 until an empty batch, leaving the buffer and the
\* stream empty.
C21_FetchAllDrains ==
    FetchAllOver =>
       /\ last.ev = "raised" => last.error \in DriverErrorClasses
       /\ last.ev = "returned" =>
             /\ last.result = RowsBefore
             /\ last._rowbuffer = RowBuffer(TRUE, <<>>)
             /\ call[1].stream = <<>>
             /\ driver_calls # <<>>
             /\ \A i \in 1..Len(driver_calls) :
                   driver_calls[i].size = DrainSize

\* fetchall() right after the execute of a new cursor raises TypeError
C21_Witness ==
    /\ FetchAllOver
    /\ last.ev = "raised"
    /\ last.error = "TypeError"
    /\ call[1].executes = 1
    /\ call[1].before._rowbuffer = RowBuffer(FALSE, <<>>)

\* fetchall() with a buffer returns the buffer and the stream
C21_Drained ==
    /\ FetchAllOver
    /\ last.ev = "returned"
    /\ Len(last.result) > 1
    /\ call[1].before._rowbuffer.rows # <<>>
    /\ call[1].before.stream # <<>>
    /\ last.result = RowsBefore


\* fetchone() or fetchmany(k) of the server side cursor returned
RowsFetched ==
    /\ last.ev = "returned"
    /\ last.op \in {"fetchone", "fetchmany"}

IsPrefix(rows, all) == Len(rows) =< Len(all) /\ rows = SubSeq(all, 1, Len(rows))

\* fetchone() gave None, fetchmany(k) fewer than k rows
Short ==
    \/ last.op = "fetchone" /\ last.result = <<>>
    \/ last.op = "fetchmany" /\ Len(last.result) < last.size

\* C27: after a successful execute, the rows that fetchone() and fetchmany(k)
\* of a server side cursor have returned are, put together, the first rows of
\* the result of that execute in their order, and fetchone() returns None or
\* fetchmany(k) fewer than k rows only when all of the result was returned.
C27_FetchesYieldPrefix ==
    RowsFetched =>
       /\ IsPrefix(call[1].returned, call[1].result)
       /\ Short => call[1].returned = call[1].result

\* rows buffered from the first result are returned after the second execute
C27_StaleRows ==
    /\ RowsFetched
    /\ call[1].executes = 2
    /\ last.result # <<>>
    /\ ~IsPrefix(call[1].returned, call[1].result)

\* while the cursor was executed once, the fetches return the result in order
C27_FirstResultInOrder ==
    (RowsFetched /\ call[1].executes = 1) =>
       /\ IsPrefix(call[1].returned, call[1].result)
       /\ Short => call[1].returned = call[1].result

C27_FirstResultShort ==
    /\ RowsFetched /\ call[1].executes = 1
    /\ Short
    /\ last.op = "fetchmany" /\ last.result # <<>>
    /\ call[1].returned = call[1].result


\* a method of the cursor that buffers its result returned
RowsReturned ==
    /\ last.ev = "returned"
    /\ last.op \in {"fetchone", "fetchmany", "fetchall", "close"}

Min(a, b) == IF a < b THEN a ELSE b

\* the number of rows fetchmany was asked for
Asked == IF last.size.given THEN last.size.n ELSE call[1].arraysize

\* C25: on the cursor that buffers its result, fetchone() returns the first
\* buffered row or None when there is none, fetchmany(n) the first
\* min(n, remaining) rows with n defaulting to arraysize, fetchall() all the
\* remaining rows, close() empties the buffer; whatever the sequence of calls,
\* the rows returned are rows of the result in their order, each once, and
\* until close() none is lost.
C25_BufferedRowsInOrderOnce ==
    RowsReturned =>
       /\ IsPrefix(call[1].returned, call[1].result)
       /\ ~call[1].closed => call[1].returned \o call[1]._rows = call[1].result
       /\ last.op = "fetchone" =>
             /\ last.none = (last.before = <<>>)
             /\ ~last.none => last.result = <<last.before[1]>>
             /\ last.none => last.result = <<>>
       /\ last.op = "fetchmany" =>
             /\ Len(last.result) = Min(Asked, Len(last.before))
             /\ IsPrefix(last.result, last.before)
       /\ last.op = "fetchall" =>
             /\ last.result = last.before
             /\ call[1]._rows = <<>>
       /\ last.op = "close" => call[1]._rows = <<>>

\* fetchmany() without a size on a cursor with arraysize 2 and three rows,
\* after which a row is left
C25_Witness ==
    /\ RowsReturned
    /\ last.op = "fetchmany"
    /\ ~last.size.given
    /\ call[1].arraysize = 2
    /\ Len(last.result) = 2
    /\ call[1]._rows # <<>>


\* the driver calls that _prepare and _executemany make once the type cache
\* check is done, and the one that follows the check in _executemany
AfterCheck == {"prepare", "fetch", "executemany", "start"}

\* this step calls reload_schema_state for the call of task 1
ReloadCalled ==
    pc[1] # "reload_schema_state" /\ pc'[1] = "reload_schema_state"

\* this step makes the type cache check of the call of task 1 without a reload
\* and goes on to the lookup, the prepare or the executemany
CheckedWithoutReload ==
    \/ /\ call[1].op = "execute"
       /\ pc[1] \in {"wait_mutex", "start"}
       /\ pc'[1] \in {"prepare", "fetch"}
    \/ /\ call[1].op = "executemany"
       /\ pc[1] = "wait_mutex"
       /\ pc'[1] \in {"start", "executemany"}

\* the reload_schema_state of the call of task 1 returned in this step
ReloadDone == pc[1] = "reload_schema_state" /\ pc'[1] \in AfterCheck

\* what a step does about the type cache check of the call of task 1
TypeCacheCheck ==
    /\ ReloadCalled =>
          /\ cursor_asof[1] > conn_asof
          /\ conn_asof' = conn_asof
          /\ _prepared_statement_cache' = _prepared_statement_cache
          /\ ~\E i \in 1..Len(driver_calls) :
                 /\ driver_calls[i].id = call[1].id
                 /\ driver_calls[i].call \in
                       {"reload_schema_state", "prepare", "fetch",
                        "executemany"}
    /\ ReloadDone =>
          /\ conn_asof' = cursor_asof[1]
          /\ driver_calls[Len(driver_calls)].call = "reload_schema_state"
    /\ CheckedWithoutReload =>
          /\ ~(cursor_asof[1] > conn_asof)
          /\ conn_asof' = conn_asof
    /\ conn_asof' # conn_asof => ReloadDone
    /\ (/\ pc[1] # "reload_schema_state"
        /\ _prepared_statement_cache' # _prepared_statement_cache) =>
          ~(cursor_asof[1] > conn_asof)

\* C22: _prepare and _executemany call reload_schema_state only when the
\* caller's timestamp is newer than the connection's, once, and set the
\* connection's timestamp to the caller's when it returns, before the cache is
\* looked up and before prepare or executemany is called; when the caller's
\* timestamp is not newer nothing is reloaded and the timestamp stays.
C22_ReloadOnceBeforeLookup == [][TypeCacheCheck]_vars

\* the reload returned, the connection took the caller's newer timestamp and
\* prepare is awaited
C22_Witness ==
    /\ pc[1] = "prepare"
    /\ conn_asof = cursor_asof[1]
    /\ conn_asof > 0
    /\ Len(driver_calls) > 1
    /\ driver_calls[Len(driver_calls) - 1] =
          [id |-> call[1].id, call |-> "reload_schema_state"]


\* C23: on a connection constructed with prepared_statement_cache_size 0 no
\* cache entry ever exists, and every _prepare that returns has awaited the
\* driver's prepare in its own call and returns the handle that prepare gave,
\* never a handle of an earlier call.
C23_NoCacheAlwaysPrepares ==
    /\ IsNone(_prepared_statement_cache)
    /\ Prepared =>
          /\ ~last.hit
          /\ DriverPrepared
          /\ last.stmt = last.id
          /\ last.attributes = GetAttributes(last.id)
          /\ IsNone(last.cache_before)

\* the same text is prepared by a later call of the connection, by the driver
C23_Witness ==
    /\ Prepared
    /\ last.id > 1
    /\ ~last.hit
    /\ DriverPrepared
    /\ IsNone(_prepared_statement_cache)


\* this step of task p calls the native start()
StartIssued(p) == pc[p] # "start" /\ pc'[p] = "start"

\* this step of task p tests `if not self._started` and goes on without a
\* transaction start
StartSkipped(p) ==
    \/ /\ call[p].op = "execute"
       /\ pc[p] = "wait_mutex"
       /\ pc'[p] \in {"reload_schema_state", "prepare", "fetch"}
    \/ /\ call[p].op = "executemany"
       /\ pc[p] \in {"wait_mutex", "reload_schema_state"}
       /\ pc'[p] = "executemany"

\* the native start() of task p returned in this step
StartReturned(p) ==
    /\ pc[p] = "start"
    /\ pc'[p] \in {"reload_schema_state", "prepare", "fetch", "executemany"}

\* the call of task p has awaited one of the named driver calls already
Awaited(p, names) ==
    \E i \in 1..Len(driver_calls) :
       driver_calls[i].id = call[p].id /\ driver_calls[i].call \in names

\* what a step does about the start of the transaction
LazyStart ==
    /\ \A p \in Tasks :
          /\ StartIssued(p) =>
                /\ ~_started
                /\ isolation_level # "autocommit"
                /\ _execute_mutex' = p
                /\ _transaction' = Transaction
                /\ ~Awaited(p, {"start", "prepare", "fetch", "executemany"})
          /\ StartSkipped(p) => (_started \/ isolation_level = "autocommit")
          /\ StartReturned(p) =>
                /\ _started'
                /\ _execute_mutex = p
                /\ ~Awaited(p, {"prepare", "fetch", "executemany"})
    /\ (~_started /\ _started') => \E p \in Tasks : StartReturned(p)
    /\ (_started /\ ~_started') =>
          \/ \E p \in Tasks : InTxControl(p) /\ pc'[p] # pc[p]
          \/ is_closed'

\* C24: on a connection whose isolation level is not "autocommit", an execute
\* or executemany that finds no transaction started awaits one native start()
\* once it holds the mutex and before it prepares or executes the statement,
\* and _started is true when the start returns; an execute that finds the
\* transaction started awaits no start, and _started becomes false again only
\* when a commit or rollback ends (or the connection is found closed).
C24_TransactionStartedLazilyOnce == [][LazyStart]_vars

\* the second execute of a transaction: the first started it, this one is
\* about to prepare having awaited no start
C24_NoSecondStart ==
    \E p \in Tasks :
       /\ pc[p] = "prepare"
       /\ call[p].id > 1
       /\ _started
       /\ _transaction = Transaction
       /\ ~Awaited(p, {"start"})
       /\ isolation_level # "autocommit"

\* the first execute started the transaction before its prepare
C24_Witness ==
    \E p \in Tasks :
       /\ pc[p] = "prepare"
       /\ _started
       /\ driver_calls[Len(driver_calls) - 1] =
             [id |-> call[p].id, call |-> "start"]


\* the mutex is held only by a coroutine that is suspended inside its
\* `async with` block
HeldInsideExecute ==
    \A p \in Tasks : _execute_mutex = p => InExecute(p)

\* C26: the execute mutex is released on every way out of execute and
\* executemany (return, and failure of the transaction start, the schema
\* reload, the placeholder substitution, the prepare or the statement); when
\* every driver call returns or raises, a coroutine waiting for the mutex
\* eventually gets it and every call eventually ends.
C26_MutexReleasedAndAcquired ==
    /\ [](HeldInsideExecute /\ _execute_mutex \in {0} \cup Tasks)
    /\ \A p \in Tasks : (pc[p] = "wait_mutex") ~> (pc[p] # "wait_mutex")
    /\ \A p \in Tasks : (pc[p] # "idle") ~> (pc[p] = "idle" /\ _execute_mutex # p)

\* a task waits for the mutex another one holds
C26_Witness ==
    /\ pc[2] = "wait_mutex"
    /\ _execute_mutex = 1
    /\ InExecute(1)

\* the placeholder substitution failed after the start of the transaction and
\* the mutex is free
C26_SubstitutionFailed ==
    /\ last.ev = "raised"
    /\ last.error = "TypeError"
    /\ last.native = "start"
    /\ _execute_mutex = 0


\* _prepare returned a cached handle to an execution that was called after
\* the DDL statement completed, from a cursor that went through pre_exec
\* after the DDL's bump
ServedAfterDdl ==
    /\ Prepared
    /\ last.hit
    /\ call[DdlTask].op = "ddl_done"
    /\ last.id > call[DdlTask].calls_before
    /\ last.t = dialect_asof

\* C28: once a DDL statement executed through the dialect has completed, no
\* execution called afterwards is served from a cache entry that was compiled
\* before the DDL completed, also when statements were prepared while the DDL
\* was in progress.
C28_NoEntryFromBeforeDdl ==
    ServedAfterDdl => last.stmt \notin call[DdlTask].compiled_before

\* an entry compiled before the DDL's bump is not served afterwards
C28_StaleBeforeBump ==
    (ServedAfterDdl /\ last.seen_before # NotSeen) => last.seen_before.bump = 0

\* an execution after the DDL gets the handle that was compiled while the DDL
\* was in progress
C28_ServedFromRace ==
    /\ ServedAfterDdl
    /\ last.stmt \in call[DdlTask].compiled_before
    /\ last.cache_before.entry[last.sql].ts > dialect_asof

====
